---- MODULE Spec2Model ----
(***************************************************************************)
(* Knight's tour solver (knight-09-symmetry.py): main()'s validation, the  *)
(* sentinel board, the three move-ordering strategies, the explicit-stack  *)
(* depth-first search solve() and the mirror-blocking search               *)
(* _solve_symmetric() with _renumber_symmetric_path().                     *)
(***************************************************************************)
EXTENDS Integers, Sequences, FiniteSets, TLC

VARIABLES
    args,          \* the parsed command line (argparse namespace)
    board,         \* KnightTourSolver.board, a function on physical cells <<x, y>>
    knight_moves,  \* KnightTourSolver.knight_moves, the offset order of this run
    stack,         \* the local list of Situation frames of the running search
    trials,        \* MoveStatistics.trials
    pc,            \* position of main(): "main", "constructed", "solve", "symmetric", "done", "rejected"
    found,         \* the value returned by the search
    run,           \* 0: a single run of main(); 1, 2: first and second of two runs on the same arguments
    log,           \* history: the states the current run went through (kept when run > 0)
    first,         \* history: the log of the completed first run
    k03,           \* a run of knight-03-oo.py: board, call stack of _backtrack, trials, result
    k04,           \* a run of knight-04-border.py, likewise
    k05,           \* a run of knight-05-npf.py, likewise, with the marks and unmarks it made
    k06,           \* a run of knight-06-own-stack.py: board, Situation stack, trials, result, marks
    mirror_call    \* a call of a mirror function outside a search: its arguments and results

vars == <<args, board, knight_moves, stack, trials, pc, found, run, log, first, k03, k04, k05, k06, mirror_call>>

\* the four earlier versions of the solver
earlier == <<k03, k04, k05, k06>>

\* what a run of main() leaves alone
aside == <<earlier, mirror_call>>

----------------------------------------------------------------------------
(* Bounds of the model *)

MaxCells == 12      \* every board with width * height <= MaxCells is explored
MaxShuffle == 0     \* shuffled offset orders: rotations 0..MaxShuffle of the base order and their reversals
MaxLimitK == 1      \* trial limits 1, 9, ... 1 + 8 * MaxLimitK
MaxSide == 5        \* the mirror functions are called on boards of 1..MaxSide by 1..MaxSide
MaxApart == 3       \* and on pairs of cells at most MaxApart columns and rows apart

----------------------------------------------------------------------------
(* Constants of the program *)

\* mutant: a mistyped first offset
BASE_KNIGHT_MOVES_Typo ==
    << <<1, 1>>, <<1, 2>>, <<-1, 2>>, <<-2, 1>>,
       <<-2, -1>>, <<-1, -2>>, <<1, -2>>, <<2, -1>> >>

BASE_KNIGHT_MOVES ==
    << <<2, 1>>, <<1, 2>>, <<-1, 2>>, <<-2, 1>>,
       <<-2, -1>>, <<-1, -2>>, <<1, -2>>, <<2, -1>> >>

MIRROR_BLOCKED == -3
BLOCKED == -2
EMPTY == -1

NoSymmetry == "none"     \* symmetry=None
NoLimit == 0             \* limit=None (and limit=0) are falsy in "if self.limit and ..."
None == <<>>             \* an unset entry of a path list
NoBoard == [c \in {} |-> BLOCKED]   \* no solver has been constructed
NotRun == [result |-> "idle"]       \* an earlier version that is not part of this run
NoCall == [f |-> "none"]            \* no mirror function has been called on its own

----------------------------------------------------------------------------
(* Geometry *)

total_squares(a) == a.width * a.height
half_squares(a) == (a.width * a.height) \div 2

\* mutant: the border is one cell wide
PhysCells_NarrowBorder(a) == (1 .. a.width + 2) \X (1 .. a.height + 2)

PhysCells(a) == (0 .. a.width + 3) \X (0 .. a.height + 3)
Interior(a) == (2 .. a.width + 1) \X (2 .. a.height + 1)
StartCell(a) == <<a.start_x + 2, a.start_y + 2>>

\* the sentinel board built by __init__
NewBoard(a) == [c \in PhysCells(a) |-> IF c \in Interior(a) THEN EMPTY ELSE BLOCKED]

\* mutant: the mirror column is taken one too far to the right
_mirror_h_OffByOne(a, c) == <<a.width + 4 - c[1], c[2]>>

_mirror_h(a, c) == <<a.width + 3 - c[1], c[2]>>
\* mutant: the row is reflected about the width
_mirror_v_AboutWidth(a, c) == <<c[1], a.width + 3 - c[2]>>

_mirror_v(a, c) == <<c[1], a.height + 3 - c[2]>>
_mirror_p(a, c) == <<a.width + 3 - c[1], a.height + 3 - c[2]>>

_mirror(a, c) ==
    CASE a.symmetry = "h" -> _mirror_h(a, c)
      [] a.symmetry = "v" -> _mirror_v(a, c)
      [] a.symmetry = "p" -> _mirror_p(a, c)

_can_connect(km, c1, c2) ==
    \E i \in 1 .. Len(km) : c1[1] + km[i][1] = c2[1] /\ c1[2] + km[i][2] = c2[2]

----------------------------------------------------------------------------
(* Move ordering *)

\* the cells c + offset in offset order
Targets(km, c) == [i \in 1 .. Len(km) |-> <<c[1] + km[i][1], c[2] + km[i][2]>>]

\* mutant: only the border is excluded
IsEmptyCell_NotBlocked(b, c) == b[c] # BLOCKED

IsEmptyCell(b, c) == b[c] = EMPTY

\* list.sort(key=...) on (key, cell) pairs: ascending by key, stable.
\* The place of entry i is the number of entries with a smaller key, or with
\* the same key and an earlier position, plus one.
PlaceOf(s, i) ==
    1 + Cardinality({j \in 1 .. Len(s) : s[j][1] < s[i][1] \/ (s[j][1] = s[i][1] /\ j < i)})

StableSort(s) ==
    [r \in 1 .. Len(s) |-> s[CHOOSE i \in 1 .. Len(s) : PlaceOf(s, i) = r]]

Cells(keyed) == [i \in 1 .. Len(keyed) |-> keyed[i][2]]

_ordered_moves_plain(b, km, c) ==
    SelectSeq(Targets(km, c), LAMBDA t : IsEmptyCell(b, t))

\* four times the squared distance to ((width-1)/2 + 2, (height-1)/2 + 2), an integer
_distance_from_center(a, c) ==
    (2 * c[1] - (a.width + 3)) * (2 * c[1] - (a.width + 3))
  + (2 * c[2] - (a.height + 3)) * (2 * c[2] - (a.height + 3))

\* mutant: the nearest candidate comes first
_ordered_moves_centrifugal_NearestFirst(a, b, km, c) ==
    LET empties == _ordered_moves_plain(b, km, c)
        candidates == [i \in 1 .. Len(empties) |->
                          <<_distance_from_center(a, empties[i]), empties[i]>>]
    IN  Cells(StableSort(candidates))

_ordered_moves_centrifugal(a, b, km, c) ==
    LET empties == _ordered_moves_plain(b, km, c)
        candidates == [i \in 1 .. Len(empties) |->
                          <<0 - _distance_from_center(a, empties[i]), empties[i]>>]
    IN  Cells(StableSort(candidates))

\* mutant: every cell that is not border counts as an onward move
_warnsdorff_degree_CountsVisited(b, km, c) ==
    Cardinality({i \in 1 .. Len(km) : b[Targets(km, c)[i]] # BLOCKED})

_warnsdorff_degree(b, km, c) ==
    Cardinality({i \in 1 .. Len(km) : IsEmptyCell(b, Targets(km, c)[i])})

_ordered_moves_warnsdorff(b, km, c) ==
    LET empties == _ordered_moves_plain(b, km, c)
        candidates == [i \in 1 .. Len(empties) |->
                          <<_warnsdorff_degree(b, km, empties[i]), empties[i]>>]
    IN  Cells(StableSort(candidates))

\* self._move_generator(x, y): the list it returns
_move_generator(a, b, km, c) ==
    CASE a.search_mode = "dfs" -> _ordered_moves_plain(b, km, c)
      [] a.search_mode = "centrifugal" -> _ordered_moves_centrifugal(a, b, km, c)
      [] a.search_mode = "warnsdorff" -> _ordered_moves_warnsdorff(b, km, c)

\* mutant: NarrowestFirst charges one trial per candidate instead of one per
\* offset of each candidate
Recorded_PerCandidate(a, b, km, c) ==
    IF a.search_mode = "warnsdorff"
    THEN Len(km) + Len(_ordered_moves_plain(b, km, c))
    ELSE Len(km)

\* self._move_generator(x, y): what it passes to stats.record
Recorded(a, b, km, c) ==
    IF a.search_mode = "warnsdorff"
    THEN Len(km) + Len(_ordered_moves_plain(b, km, c)) * Len(km)
    ELSE Len(km)

Situation(c, n, moves) ==
    [x |-> c[1], y |-> c[2], move_num |-> n, moves |-> moves, next_index |-> 0]

Pos(f) == <<f.x, f.y>>

----------------------------------------------------------------------------
(* Output *)

\* the last interior cell in scan order (rows, then columns) holding value n
LastHolding(a, b, n) ==
    LET holders == {c \in Interior(a) : b[c] = n}
    IN  IF holders = {} THEN None
        ELSE CHOOSE c \in holders :
                 \A d \in holders : d[2] < c[2] \/ (d[2] = c[2] /\ d[1] <= c[1])

\* mutant: the path list starts out filled with (0, 0) instead of None
get_path_ZeroFilled(a, b) ==
    [i \in 1 .. total_squares(a) |->
        LET c == LastHolding(a, b, i - 1)
        IN  IF c = None THEN <<0, 0>> ELSE <<c[1] - 2, c[2] - 2>>]

\* get_path(): entry i + 1 is the user coordinate of move number i
get_path(a, b) ==
    [i \in 1 .. total_squares(a) |->
        LET c == LastHolding(a, b, i - 1)
        IN  IF c = None THEN None ELSE <<c[1] - 2, c[2] - 2>>]

----------------------------------------------------------------------------
(* Inputs *)

Reverse(s) == [i \in 1 .. Len(s) |-> s[Len(s) + 1 - i]]
Rotate(s, k) == [i \in 1 .. Len(s) |-> s[((i - 1 + k) % Len(s)) + 1]]

\* the orders random.shuffle is modelled to produce
ShuffledOrders ==
    {Rotate(BASE_KNIGHT_MOVES, k) : k \in 0 .. MaxShuffle}
      \cup {Reverse(Rotate(BASE_KNIGHT_MOVES, k)) : k \in 0 .. MaxShuffle}

SEARCH_MODES == {"dfs", "centrifugal", "warnsdorff"}
Symmetries == {NoSymmetry, "h", "v", "p"}
Limits == {NoLimit} \cup {1 + 8 * k : k \in 0 .. MaxLimitK}

Args(w, h, m, r, sx, sy, c, s, l) ==
    [width |-> w, height |-> h, search_mode |-> m, random_moves |-> r,
     start_x |-> sx, start_y |-> sy, closed |-> c, symmetry |-> s, limit |-> l]

\* args is a command line on a board of at most MaxCells cells
IsSmallArgs ==
    \E w \in 1 .. MaxCells : \E h \in 1 .. (MaxCells \div w) :
      \E m \in SEARCH_MODES, r \in BOOLEAN, c \in BOOLEAN, s \in Symmetries, l \in Limits :
        \E sx \in -1 .. w, sy \in -1 .. h :
          args = Args(w, h, m, r, sx, sy, c, s, l)

\* the example scenarios of the documentation, on boards large enough to hold
\* closed and symmetric tours
ExampleArgs ==
    {Args(5, 5, "dfs", FALSE, 0, 0, FALSE, NoSymmetry, NoLimit),
     Args(5, 5, "dfs", FALSE, 0, 0, TRUE, NoSymmetry, NoLimit)}
    \cup {Args(6, 6, m, FALSE, 1, 0, TRUE, NoSymmetry, NoLimit) : m \in {"centrifugal", "warnsdorff"}}
    \cup {Args(5, 6, m, FALSE, 0, 3, TRUE, NoSymmetry, NoLimit) : m \in {"centrifugal", "warnsdorff"}}
    \cup {Args(6, 6, m, FALSE, sx, 2, FALSE, "p", NoLimit) : m \in SEARCH_MODES, sx \in {0, 2}}
    \cup {Args(5, 6, m, FALSE, 2, sy, FALSE, "v", NoLimit) : m \in SEARCH_MODES, sy \in {0, 2}}
    \cup {Args(6, 5, m, FALSE, 3, sy, FALSE, "h", NoLimit) : m \in SEARCH_MODES, sy \in {2}}

\* runs cut short by --limit: the documented "8 8 --symmetry=h" board, whose
\* unlimited search is far out of reach, the 4x3 board, whose symmetric
\* search examines 136 offsets (Natural, Centrifugal) or 264 (NarrowestFirst)
\* before it is exhausted, and the 6x5 board, where Centrifugal completes
\* path A with the 1088th examination
LimitedArgs ==
    {Args(8, 8, m, FALSE, 0, 0, FALSE, "h", l) :
        m \in SEARCH_MODES, l \in {1, 100, 1000, 2000}}
    \cup {Args(4, 3, m, FALSE, 0, 0, FALSE, "h", l) :
        m \in SEARCH_MODES, l \in {100, 136, 137, 264, 265}}
    \cup {Args(6, 5, "centrifugal", FALSE, 0, 0, FALSE, "h", l) : l \in {1088, 1089}}

----------------------------------------------------------------------------
(* main(): validation *)

StartOutOfRange(a) ==
    \/ a.start_x < 0 \/ a.start_x >= a.width
    \/ a.start_y < 0 \/ a.start_y >= a.height

\* mutant: the parity test asks for even dimensions
ClosedImpossible_Even(a) == a.closed /\ a.width % 2 = 0 /\ a.height % 2 = 0

ClosedImpossible(a) == a.closed /\ a.width % 2 = 1 /\ a.height % 2 = 1

\* mutant: h tests the height and v tests the width
SymmetryDimsInvalid_Swapped(a) ==
    \/ a.symmetry = "p" /\ (a.width % 2 # 0 \/ a.height % 2 # 0)
    \/ a.symmetry = "h" /\ a.height % 2 # 0
    \/ a.symmetry = "v" /\ a.width % 2 # 0

SymmetryDimsInvalid(a) ==
    \/ a.symmetry = "p" /\ (a.width % 2 # 0 \/ a.height % 2 # 0)
    \/ a.symmetry = "h" /\ a.width % 2 # 0
    \/ a.symmetry = "v" /\ a.height % 2 # 0

\* start == (dimension - 1) / 2 compares an int with a float quotient
StartOnAxis(a) ==
    \/ a.symmetry = "h" /\ 2 * a.start_x = a.width - 1
    \/ a.symmetry = "v" /\ 2 * a.start_y = a.height - 1
    \/ a.symmetry = "p" /\ 2 * a.start_x = a.width - 1 /\ 2 * a.start_y = a.height - 1

Invalid(a) ==
    \/ StartOutOfRange(a)
    \/ ClosedImpossible(a)
    \/ a.symmetry # NoSymmetry /\ (SymmetryDimsInvalid(a) \/ StartOnAxis(a))

----------------------------------------------------------------------------
(* History of a run *)

Snapshot == [pc |-> pc, board |-> board, stack |-> stack, trials |-> trials, found |-> found]

Record == log' = IF run > 0 THEN Append(log, Snapshot') ELSE log

----------------------------------------------------------------------------
(* Initial state: the command line is parsed, nothing is constructed *)

\* none of the earlier versions is run
EarlierNotRun == k03 = NotRun /\ k04 = NotRun /\ k05 = NotRun /\ k06 = NotRun

Fresh ==
    /\ board = NoBoard
    /\ knight_moves = BASE_KNIGHT_MOVES
    /\ stack = <<>>
    /\ trials = 0
    /\ pc = "main"
    /\ found = FALSE
    /\ log = <<>>
    /\ first = <<>>

Init ==
    /\ IsSmallArgs \/ args \in ExampleArgs \/ args \in LimitedArgs
    /\ run = 0
    /\ Fresh
    /\ mirror_call = NoCall
    /\ EarlierNotRun

----------------------------------------------------------------------------
(* main() *)

\* main() prints an error and returns before a solver exists
MainReject ==
    /\ pc = "main"
    /\ Invalid(args)
    /\ pc' = "rejected"
    /\ UNCHANGED <<args, board, knight_moves, stack, trials, found, run, first>>
    /\ Record
    /\ UNCHANGED aside

\* mutant: the offset order is shuffled whether or not --random was given
Construct_AlwaysShuffles ==
    /\ pc = "main"
    /\ ~Invalid(args)
    /\ board' = NewBoard(args)
    /\ trials' = 0
    /\ knight_moves' \in ShuffledOrders
    /\ pc' = "constructed"
    /\ UNCHANGED <<args, stack, found, run, first>>
    /\ Record
    /\ UNCHANGED aside

\* KnightTourSolver(...): the sentinel board, the statistics, the offset order
Construct ==
    /\ pc = "main"
    /\ ~Invalid(args)
    /\ board' = NewBoard(args)
    /\ trials' = 0
    /\ knight_moves' \in (IF args.random_moves THEN ShuffledOrders ELSE {BASE_KNIGHT_MOVES})
    /\ pc' = "constructed"
    /\ UNCHANGED <<args, stack, found, run, first>>
    /\ Record
    /\ UNCHANGED aside

----------------------------------------------------------------------------
(* solve() *)

\* mutant: move numbers start at 1
SolveInit_StartsAtOne ==
    /\ pc = "constructed"
    /\ args.symmetry = NoSymmetry
    /\ LET b1 == [board EXCEPT ![StartCell(args)] = 1]
       IN  /\ board' = b1
           /\ stack' = <<Situation(StartCell(args), 1,
                                   _move_generator(args, b1, knight_moves, StartCell(args)))>>
           /\ trials' = trials + Recorded(args, b1, knight_moves, StartCell(args))
    /\ pc' = "solve"
    /\ UNCHANGED <<args, knight_moves, found, run, first>>
    /\ Record
    /\ UNCHANGED aside

\* lines 254-270: mark the start, seed the stack
SolveInit ==
    /\ pc = "constructed"
    /\ args.symmetry = NoSymmetry
    /\ LET b1 == [board EXCEPT ![StartCell(args)] = 0]
       IN  /\ board' = b1
           /\ stack' = <<Situation(StartCell(args), 0,
                                   _move_generator(args, b1, knight_moves, StartCell(args)))>>
           /\ trials' = trials + Recorded(args, b1, knight_moves, StartCell(args))
    /\ pc' = "solve"
    /\ UNCHANGED <<args, knight_moves, found, run, first>>
    /\ Record
    /\ UNCHANGED aside

Top == stack[Len(stack)]

\* mutant: the acceptance test is off by one
Accepts_OneEarly(a, km, f) ==
    /\ f.move_num + 2 = total_squares(a)
    /\ a.closed => _can_connect(km, Pos(f), StartCell(a))

\* mutant: a closed tour is accepted without the way back to the start
Accepts_NoReturn(a, km, f) == f.move_num + 1 = total_squares(a)

\* lines 275-282: the top frame completes the tour
Accepts(a, km, f) ==
    /\ f.move_num + 1 = total_squares(a)
    /\ a.closed => _can_connect(km, Pos(f), StartCell(a))

SolveFound ==
    /\ pc = "solve"
    /\ stack # <<>>
    /\ Accepts(args, knight_moves, Top)
    /\ found' = TRUE
    /\ pc' = "done"
    /\ UNCHANGED <<args, board, knight_moves, stack, trials, run, first>>
    /\ Record
    /\ UNCHANGED aside

\* mutant: the exhausted cell is popped but left marked
SolveBacktrack_NoUnmark ==
    /\ pc = "solve"
    /\ stack # <<>>
    /\ ~Accepts(args, knight_moves, Top)
    /\ Top.next_index >= Len(Top.moves)
    /\ stack' = SubSeq(stack, 1, Len(stack) - 1)
    /\ UNCHANGED <<args, board, knight_moves, trials, pc, found, run, first>>
    /\ Record
    /\ UNCHANGED aside

\* mutant: a full-length path that cannot return to the start ends the search
SolveBacktrack_EndsAtFullDepth ==
    /\ pc = "solve"
    /\ stack # <<>>
    /\ ~Accepts(args, knight_moves, Top)
    /\ Top.next_index >= Len(Top.moves)
    /\ IF Top.move_num + 1 = total_squares(args)
       THEN /\ found' = FALSE
            /\ pc' = "done"
            /\ UNCHANGED <<board, stack>>
       ELSE /\ board' = [board EXCEPT ![Pos(Top)] = EMPTY]
            /\ stack' = SubSeq(stack, 1, Len(stack) - 1)
            /\ UNCHANGED <<pc, found>>
    /\ UNCHANGED <<args, knight_moves, trials, run, first>>
    /\ Record
    /\ UNCHANGED aside

\* mutant: the offsets are rotated on every backtrack
SolveBacktrack_Reshuffles ==
    /\ pc = "solve"
    /\ stack # <<>>
    /\ ~Accepts(args, knight_moves, Top)
    /\ Top.next_index >= Len(Top.moves)
    /\ board' = [board EXCEPT ![Pos(Top)] = EMPTY]
    /\ stack' = SubSeq(stack, 1, Len(stack) - 1)
    /\ knight_moves' = Rotate(knight_moves, 1)
    /\ UNCHANGED <<args, trials, pc, found, run, first>>
    /\ Record
    /\ UNCHANGED aside

\* mutant: the start frame is popped without resetting its cell, as the
\* recursive versions leave it
SolveBacktrack_KeepsStart ==
    /\ pc = "solve"
    /\ stack # <<>>
    /\ ~Accepts(args, knight_moves, Top)
    /\ Top.next_index >= Len(Top.moves)
    /\ board' = IF Top.move_num > 0 THEN [board EXCEPT ![Pos(Top)] = EMPTY] ELSE board
    /\ stack' = SubSeq(stack, 1, Len(stack) - 1)
    /\ UNCHANGED <<args, knight_moves, trials, pc, found, run, first>>
    /\ Record
    /\ UNCHANGED aside

\* lines 284-290: the top frame is exhausted
SolveBacktrack ==
    /\ pc = "solve"
    /\ stack # <<>>
    /\ ~Accepts(args, knight_moves, Top)
    /\ Top.next_index >= Len(Top.moves)
    /\ board' = [board EXCEPT ![Pos(Top)] = EMPTY]
    /\ stack' = SubSeq(stack, 1, Len(stack) - 1)
    /\ UNCHANGED <<args, knight_moves, trials, pc, found, run, first>>
    /\ Record
    /\ UNCHANGED aside

\* mutant: the cursor of the top frame is not advanced
SolveMove_NoAdvance ==
    /\ pc = "solve"
    /\ stack # <<>>
    /\ ~Accepts(args, knight_moves, Top)
    /\ Top.next_index < Len(Top.moves)
    /\ LET n == Top.moves[Top.next_index + 1]
           new_move_num == Top.move_num + 1
           b1 == [board EXCEPT ![n] = new_move_num]
       IN  /\ board' = b1
           /\ stack' = Append(stack,
                              Situation(n, new_move_num,
                                        _move_generator(args, b1, knight_moves, n)))
           /\ trials' = trials
    /\ UNCHANGED <<args, knight_moves, pc, found, run, first>>
    /\ Record
    /\ UNCHANGED aside

\* mutant: the candidates of a frame are taken from the end of its list
SolveMove_TakesLast ==
    /\ pc = "solve"
    /\ stack # <<>>
    /\ ~Accepts(args, knight_moves, Top)
    /\ Top.next_index < Len(Top.moves)
    /\ LET n == Top.moves[Len(Top.moves) - Top.next_index]
           new_move_num == Top.move_num + 1
           b1 == [board EXCEPT ![n] = new_move_num]
           advanced == [Top EXCEPT !.next_index = @ + 1]
       IN  /\ board' = b1
           /\ stack' = Append([stack EXCEPT ![Len(stack)] = advanced],
                              Situation(n, new_move_num,
                                        _move_generator(args, b1, knight_moves, n)))
           /\ trials' = trials + Recorded(args, b1, knight_moves, n)
    /\ UNCHANGED <<args, knight_moves, pc, found, run, first>>
    /\ Record
    /\ UNCHANGED aside

\* mutant: the strategy reorders the offset list it iterates over
SolveMove_OrderingReversesOffsets ==
    /\ pc = "solve"
    /\ stack # <<>>
    /\ ~Accepts(args, knight_moves, Top)
    /\ Top.next_index < Len(Top.moves)
    /\ LET n == Top.moves[Top.next_index + 1]
           new_move_num == Top.move_num + 1
           b1 == [board EXCEPT ![n] = new_move_num]
           advanced == [Top EXCEPT !.next_index = @ + 1]
       IN  /\ board' = b1
           /\ stack' = Append([stack EXCEPT ![Len(stack)] = advanced],
                              Situation(n, new_move_num,
                                        _move_generator(args, b1, knight_moves, n)))
           /\ trials' = trials + Recorded(args, b1, knight_moves, n)
    /\ knight_moves' = Reverse(knight_moves)
    /\ UNCHANGED <<args, pc, found, run, first>>
    /\ Record
    /\ UNCHANGED aside

\* lines 292-308: descend to the next candidate of the top frame
SolveMove ==
    /\ pc = "solve"
    /\ stack # <<>>
    /\ ~Accepts(args, knight_moves, Top)
    /\ Top.next_index < Len(Top.moves)
    /\ LET n == Top.moves[Top.next_index + 1]
           new_move_num == Top.move_num + 1
           b1 == [board EXCEPT ![n] = new_move_num]
           advanced == [Top EXCEPT !.next_index = @ + 1]
       IN  /\ board' = b1
           /\ stack' = Append([stack EXCEPT ![Len(stack)] = advanced],
                              Situation(n, new_move_num,
                                        _move_generator(args, b1, knight_moves, n)))
           /\ trials' = trials + Recorded(args, b1, knight_moves, n)
    /\ UNCHANGED <<args, knight_moves, pc, found, run, first>>
    /\ Record
    /\ UNCHANGED aside

\* line 272 fails, line 310: return False
SolveExhausted ==
    /\ pc = "solve"
    /\ stack = <<>>
    /\ found' = FALSE
    /\ pc' = "done"
    /\ UNCHANGED <<args, board, knight_moves, stack, trials, run, first>>
    /\ Record
    /\ UNCHANGED aside

----------------------------------------------------------------------------
(* _solve_symmetric() *)

start_b(a) == _mirror(a, StartCell(a))

\* mutant: the mirror of the start is left Empty
SymInit_StartMirrorFree ==
    /\ pc = "constructed"
    /\ args.symmetry # NoSymmetry
    /\ LET b1 == [board EXCEPT ![StartCell(args)] = 0]
       IN  /\ board' = b1
           /\ stack' = <<Situation(StartCell(args), 0,
                                   _move_generator(args, b1, knight_moves, StartCell(args)))>>
           /\ trials' = trials + Recorded(args, b1, knight_moves, StartCell(args))
    /\ pc' = "symmetric"
    /\ UNCHANGED <<args, knight_moves, found, run, first>>
    /\ Record
    /\ UNCHANGED aside

\* lines 343-364: mark the start, block its mirror, seed the stack
SymInit ==
    /\ pc = "constructed"
    /\ args.symmetry # NoSymmetry
    /\ LET b1 == [[board EXCEPT ![StartCell(args)] = 0] EXCEPT ![start_b(args)] = MIRROR_BLOCKED]
       IN  /\ board' = b1
           /\ stack' = <<Situation(StartCell(args), 0,
                                   _move_generator(args, b1, knight_moves, StartCell(args)))>>
           /\ trials' = trials + Recorded(args, b1, knight_moves, StartCell(args))
    /\ pc' = "symmetric"
    /\ UNCHANGED <<args, knight_moves, found, run, first>>
    /\ Record
    /\ UNCHANGED aside

\* mutant: the comparison with the limit is strict
LimitReached_Strict(a, t) == a.limit # NoLimit /\ t > a.limit

\* line 368: if self.limit and self.stats.trials >= self.limit
LimitReached(a, t) == a.limit # NoLimit /\ t >= a.limit

\* mutant: path A is accepted without the link to the mirror of the start
SymAccepts_NoLink(a, km, f) == f.move_num + 1 = half_squares(a)

\* lines 376-378: path A is complete and reaches the mirror of the start
SymAccepts(a, km, f) ==
    /\ f.move_num + 1 = half_squares(a)
    /\ _can_connect(km, Pos(f), start_b(a))

\* lines 434-439: path_a[val] = (x, y) over the interior scan
ExtractPathA(a, b) == [i \in 1 .. half_squares(a) |-> LastHolding(a, b, i - 1)]

\* mutant: path B is numbered from the end backwards
RECURSIVE AssignPathB_Backwards(_, _, _, _)
AssignPathB_Backwards(a, b, path_a, i) ==
    IF i > Len(path_a) THEN b
    ELSE AssignPathB_Backwards(a,
                     [b EXCEPT ![_mirror(a, path_a[i])] = total_squares(a) - i],
                     path_a, i + 1)

\* lines 443-445: board[mirror(path_a[i])] = half + i, in order
RECURSIVE AssignPathB(_, _, _, _)
AssignPathB(a, b, path_a, i) ==
    IF i > Len(path_a) THEN b
    ELSE AssignPathB(a,
                     [b EXCEPT ![_mirror(a, path_a[i])] = half_squares(a) + (i - 1)],
                     path_a, i + 1)

_renumber_symmetric_path(a, b) == AssignPathB(a, b, ExtractPathA(a, b), 1)

\* lines 368-371: the trial limit ends the search
SymLimit ==
    /\ pc = "symmetric"
    /\ stack # <<>>
    /\ LimitReached(args, trials)
    /\ found' = FALSE
    /\ pc' = "done"
    /\ UNCHANGED <<args, board, knight_moves, stack, trials, run, first>>
    /\ Record
    /\ UNCHANGED aside

\* mutant: the top frame is inspected before the limit is tested
SymFound_BeforeLimit ==
    /\ pc = "symmetric"
    /\ stack # <<>>
    /\ SymAccepts(args, knight_moves, Top)
    /\ board' = _renumber_symmetric_path(args, board)
    /\ found' = TRUE
    /\ pc' = "done"
    /\ UNCHANGED <<args, knight_moves, stack, trials, run, first>>
    /\ Record
    /\ UNCHANGED aside

\* mutant: True is returned with path A as it stands, nothing renumbered
SymFound_NoRenumber ==
    /\ pc = "symmetric"
    /\ stack # <<>>
    /\ ~LimitReached(args, trials)
    /\ SymAccepts(args, knight_moves, Top)
    /\ found' = TRUE
    /\ pc' = "done"
    /\ UNCHANGED <<args, board, knight_moves, stack, trials, run, first>>
    /\ Record
    /\ UNCHANGED aside

\* lines 376-380: accept, renumber, return True
SymFound ==
    /\ pc = "symmetric"
    /\ stack # <<>>
    /\ ~LimitReached(args, trials)
    /\ SymAccepts(args, knight_moves, Top)
    /\ board' = _renumber_symmetric_path(args, board)
    /\ found' = TRUE
    /\ pc' = "done"
    /\ UNCHANGED <<args, knight_moves, stack, trials, run, first>>
    /\ Record
    /\ UNCHANGED aside

\* mutant: the mirror of the frame's cell is blocked instead of the candidate's
SymMove_BlocksParentMirror ==
    /\ pc = "symmetric"
    /\ stack # <<>>
    /\ ~LimitReached(args, trials)
    /\ ~SymAccepts(args, knight_moves, Top)
    /\ Top.next_index < Len(Top.moves)
    /\ LET n == Top.moves[Top.next_index + 1]
           new_move_num == Top.move_num + 1
           b1 == [[board EXCEPT ![n] = new_move_num] EXCEPT ![_mirror(args, Pos(Top))] = MIRROR_BLOCKED]
           advanced == [stack EXCEPT ![Len(stack)] = [Top EXCEPT !.next_index = @ + 1]]
       IN  IF board[n] # EMPTY
           THEN /\ stack' = advanced
                /\ UNCHANGED <<board, trials>>
           ELSE /\ board' = b1
                /\ stack' = Append(advanced,
                                   Situation(n, new_move_num,
                                             _move_generator(args, b1, knight_moves, n)))
                /\ trials' = trials + Recorded(args, b1, knight_moves, n)
    /\ UNCHANGED <<args, knight_moves, pc, found, run, first>>
    /\ Record
    /\ UNCHANGED aside

\* lines 384-410: take the next candidate of the top frame; skip it when it is
\* no longer Empty, otherwise mark it, block its mirror and push its frame
SymMove ==
    /\ pc = "symmetric"
    /\ stack # <<>>
    /\ ~LimitReached(args, trials)
    /\ ~SymAccepts(args, knight_moves, Top)
    /\ Top.next_index < Len(Top.moves)
    /\ LET n == Top.moves[Top.next_index + 1]
           new_move_num == Top.move_num + 1
           b1 == [[board EXCEPT ![n] = new_move_num] EXCEPT ![_mirror(args, n)] = MIRROR_BLOCKED]
           advanced == [stack EXCEPT ![Len(stack)] = [Top EXCEPT !.next_index = @ + 1]]
       IN  IF board[n] # EMPTY
           THEN /\ stack' = advanced
                /\ UNCHANGED <<board, trials>>
           ELSE /\ board' = b1
                /\ stack' = Append(advanced,
                                   Situation(n, new_move_num,
                                             _move_generator(args, b1, knight_moves, n)))
                /\ trials' = trials + Recorded(args, b1, knight_moves, n)
    /\ UNCHANGED <<args, knight_moves, pc, found, run, first>>
    /\ Record
    /\ UNCHANGED aside

\* mutant: the mirror is unblocked but the cell keeps its move number
SymBacktrack_NoUnmark ==
    /\ pc = "symmetric"
    /\ stack # <<>>
    /\ ~LimitReached(args, trials)
    /\ ~SymAccepts(args, knight_moves, Top)
    /\ Top.next_index >= Len(Top.moves)
    /\ board' = IF Top.move_num > 0
                THEN [board EXCEPT ![_mirror(args, Pos(Top))] = EMPTY]
                ELSE board
    /\ stack' = SubSeq(stack, 1, Len(stack) - 1)
    /\ UNCHANGED <<args, knight_moves, trials, pc, found, run, first>>
    /\ Record
    /\ UNCHANGED aside

\* mutant: the start frame is unmarked and its mirror unblocked like any other
SymBacktrack_UnmarksStart ==
    /\ pc = "symmetric"
    /\ stack # <<>>
    /\ ~LimitReached(args, trials)
    /\ ~SymAccepts(args, knight_moves, Top)
    /\ Top.next_index >= Len(Top.moves)
    /\ board' = [[board EXCEPT ![Pos(Top)] = EMPTY] EXCEPT ![_mirror(args, Pos(Top))] = EMPTY]
    /\ stack' = SubSeq(stack, 1, Len(stack) - 1)
    /\ UNCHANGED <<args, knight_moves, trials, pc, found, run, first>>
    /\ Record
    /\ UNCHANGED aside

\* mutant: the cell is reset but its mirror stays blocked
SymBacktrack_KeepsMirror ==
    /\ pc = "symmetric"
    /\ stack # <<>>
    /\ ~LimitReached(args, trials)
    /\ ~SymAccepts(args, knight_moves, Top)
    /\ Top.next_index >= Len(Top.moves)
    /\ board' = IF Top.move_num > 0
                THEN [board EXCEPT ![Pos(Top)] = EMPTY]
                ELSE board
    /\ stack' = SubSeq(stack, 1, Len(stack) - 1)
    /\ UNCHANGED <<args, knight_moves, trials, pc, found, run, first>>
    /\ Record
    /\ UNCHANGED aside

\* lines 412-422: unmark the top cell and unblock its mirror (not for the start), pop
SymBacktrack ==
    /\ pc = "symmetric"
    /\ stack # <<>>
    /\ ~LimitReached(args, trials)
    /\ ~SymAccepts(args, knight_moves, Top)
    /\ Top.next_index >= Len(Top.moves)
    /\ board' = IF Top.move_num > 0
                THEN [[board EXCEPT ![Pos(Top)] = EMPTY] EXCEPT ![_mirror(args, Pos(Top))] = EMPTY]
                ELSE board
    /\ stack' = SubSeq(stack, 1, Len(stack) - 1)
    /\ UNCHANGED <<args, knight_moves, trials, pc, found, run, first>>
    /\ Record
    /\ UNCHANGED aside

\* line 366 fails, line 424: return False
SymExhausted ==
    /\ pc = "symmetric"
    /\ stack = <<>>
    /\ found' = FALSE
    /\ pc' = "done"
    /\ UNCHANGED <<args, board, knight_moves, stack, trials, run, first>>
    /\ Record
    /\ UNCHANGED aside

----------------------------------------------------------------------------
(* Specifications *)

Next ==
    \/ MainReject
    \/ Construct
    \/ SolveInit
    \/ SolveFound
    \/ SolveBacktrack
    \/ SolveMove
    \/ SolveExhausted
    \/ SymInit
    \/ SymLimit
    \/ SymFound
    \/ SymMove
    \/ SymBacktrack
    \/ SymExhausted

Spec == Init /\ [][Next]_vars

\* main() is started a second time on the same command line: the log of the
\* first run is kept and everything else is as at the first start
Rerun ==
    /\ run = 1
    /\ pc \in {"done", "rejected"}
    /\ run' = 2
    /\ first' = log
    /\ log' = <<>>
    /\ board' = NoBoard
    /\ knight_moves' = BASE_KNIGHT_MOVES
    /\ stack' = <<>>
    /\ trials' = 0
    /\ pc' = "main"
    /\ found' = FALSE
    /\ UNCHANGED <<args, aside>>

\* two runs of main() on a board of at most MaxCells cells or on a symmetric
\* example with an ordering heuristic (the runs of at most 151 steps, which
\* keep the log short); as in LiveInit, a shuffled order is combined with open
\* tours and no limit
RerunInit ==
    /\ \/ IsSmallArgs
       \/ /\ args \in ExampleArgs
          /\ args.symmetry # NoSymmetry
          /\ args.search_mode # "dfs"
    /\ StartOutOfRange(args) => (args.start_x = -1 /\ args.start_y = -1)
    /\ args.random_moves => (args.limit = NoLimit /\ ~args.closed)
    /\ args.symmetry = NoSymmetry => args.limit \in {NoLimit, 1}
    /\ run = 1
    /\ Fresh
    /\ mirror_call = NoCall
    /\ EarlierNotRun

NextRerun == Next \/ Rerun

RerunSpec == RerunInit /\ [][NextRerun]_vars

\* KnightTourSolver(...) called by a caller other than main(): __init__ runs
\* on whatever dimensions it is given, with no check of its own
DirectConstruct ==
    /\ pc = "main"
    /\ board' = NewBoard(args)
    /\ trials' = 0
    /\ knight_moves' \in (IF args.random_moves THEN ShuffledOrders ELSE {BASE_KNIGHT_MOVES})
    /\ pc' = "constructed"
    /\ UNCHANGED <<args, stack, found, run, first>>
    /\ Record
    /\ UNCHANGED aside

\* the constructor's inputs: any width and height of -MaxCells .. MaxCells
CtorInit ==
    /\ \E w \in -MaxCells .. MaxCells, h \in -MaxCells .. MaxCells :
         \E m \in SEARCH_MODES, r \in BOOLEAN :
           args = Args(w, h, m, r, 0, 0, FALSE, NoSymmetry, NoLimit)
    /\ run = 0
    /\ Fresh
    /\ mirror_call = NoCall
    /\ EarlierNotRun

CtorNext == DirectConstruct

CtorSpec == CtorInit /\ [][CtorNext]_vars

\* main() is one thread that runs to completion: a step that can be taken is taken
\* The runs checked for termination: of the out-of-range starts (-1, -1) is
\* kept, a shuffled offset order is combined with open tours and no limit, and
\* solve(), which never reads the limit, runs with no limit or limit 1.
LiveInit ==
    /\ Init
    /\ StartOutOfRange(args) => (args.start_x = -1 /\ args.start_y = -1)
    /\ args.random_moves => (args.limit = NoLimit /\ ~args.closed)
    /\ args.symmetry = NoSymmetry => args.limit \in {NoLimit, 1}

LiveSpec == LiveInit /\ [][Next]_vars /\ WF_vars(Next)

----------------------------------------------------------------------------
(* Vocabulary of the properties *)

\* c and d are one knight move apart: the integer solutions of dx^2 + dy^2 = 5
\* are the 8 offsets (+-1, +-2), (+-2, +-1)
KnightStep(c, d) ==
    (c[1] - d[1]) * (c[1] - d[1]) + (c[2] - d[2]) * (c[2] - d[2]) = 5

Holders(n) == {c \in Interior(args) : board[c] = n}

\* the interior holds each move number of 0 .. k - 1 on exactly one cell
HoldsEachOnce(k) == \A n \in 0 .. k - 1 : Cardinality(Holders(n)) = 1

CellOf(n) == CHOOSE c \in Interior(args) : board[c] = n

Returned(r) == pc = "done" /\ found = r
PlainRun == args.symmetry = NoSymmetry
SymmetricRun == args.symmetry # NoSymmetry

InUserRange(u) ==
    /\ u # None
    /\ u[1] \in 0 .. args.width - 1
    /\ u[2] \in 0 .. args.height - 1

\* consecutive move numbers 0 .. k - 1 sit one knight move apart
StepsAreKnightMoves(k) ==
    \A i \in 0 .. k - 2 : KnightStep(CellOf(i), CellOf(i + 1))

----------------------------------------------------------------------------
(* C1: when solve() returns True for an open tour, the interior holds every
   move number 0 .. width*height-1 exactly once and get_path() returns
   width*height pairwise distinct positions inside [0,width) x [0,height). *)
C1_OpenTourCoverage ==
    (Returned(TRUE) /\ PlainRun /\ ~args.closed) =>
        /\ HoldsEachOnce(total_squares(args))
        /\ \A c \in Interior(args) : board[c] \in 0 .. total_squares(args) - 1
        /\ LET path == get_path(args, board)
           IN  /\ Len(path) = total_squares(args)
               /\ \A i \in 1 .. Len(path) : InUserRange(path[i])
               /\ \A i, j \in 1 .. Len(path) : i # j => path[i] # path[j]

C1_Witness ==
    /\ Returned(TRUE) /\ PlainRun /\ ~args.closed
    /\ total_squares(args) >= 12
    /\ knight_moves # BASE_KNIGHT_MOVES
    /\ args.search_mode = "warnsdorff"

(* C2: when solve() returns True, for every i in 0 .. width*height-2 the cells
   holding move numbers i and i+1 differ by one of the 8 knight offsets. *)
C2_Adjacency ==
    (Returned(TRUE) /\ PlainRun) =>
        /\ HoldsEachOnce(total_squares(args))
        /\ StepsAreKnightMoves(total_squares(args))

C2_Witness ==
    /\ Returned(TRUE) /\ PlainRun
    /\ args.width = 5 /\ args.height = 5
    /\ StepsAreKnightMoves(25)

(* C3: when solve() runs with closed=True and returns True, the cell holding
   the last move number width*height-1 is one knight move from the start cell,
   which holds move number 0. *)
C3_ClosedTour ==
    (Returned(TRUE) /\ PlainRun /\ args.closed) =>
        /\ board[StartCell(args)] = 0
        /\ Holders(total_squares(args) - 1) # {}
        /\ \A c \in Holders(total_squares(args) - 1) : KnightStep(c, StartCell(args))

C3_Witness ==
    /\ Returned(TRUE) /\ PlainRun /\ args.closed
    /\ KnightStep(CellOf(total_squares(args) - 1), StartCell(args))

(* C4: when _solve_symmetric() returns True for symmetry mode m, the path
   read from the board satisfies mirror_m(Path[i]) = Path[(i + half) mod total]
   for every i in 0 .. total-1. *)
BoardPath == [i \in 1 .. total_squares(args) |-> LastHolding(args, board, i - 1)]

C4_SymmetryProperty ==
    (Returned(TRUE) /\ SymmetricRun) =>
        LET total == total_squares(args)
            half == total \div 2
        IN  \A i \in 0 .. total - 1 :
                /\ BoardPath[i + 1] # None
                /\ _mirror(args, BoardPath[i + 1]) = BoardPath[((i + half) % total) + 1]

C4_Witness ==
    /\ Returned(TRUE) /\ SymmetricRun
    /\ args.symmetry = "v"
    /\ _mirror_v(args, BoardPath[1]) = BoardPath[half_squares(args) + 1]
    /\ _mirror_v(args, BoardPath[total_squares(args)]) = BoardPath[half_squares(args)]

(* C5: when _solve_symmetric() returns True on a validated configuration, the
   renumbered board is a complete closed knight's tour: every interior cell
   holds a distinct move number of 0 .. total-1, consecutive move numbers
   (the seam half-1 -> half included) are one knight move apart, and the cell
   numbered total-1 is one knight move from the start cell. *)
C5_SymmetricClosedTour ==
    (Returned(TRUE) /\ SymmetricRun) =>
        /\ HoldsEachOnce(total_squares(args))
        /\ \A c \in Interior(args) : board[c] \in 0 .. total_squares(args) - 1
        /\ StepsAreKnightMoves(total_squares(args))
        /\ board[StartCell(args)] = 0
        /\ KnightStep(CellOf(total_squares(args) - 1), StartCell(args))

C5_Witness ==
    /\ Returned(TRUE) /\ SymmetricRun
    /\ args.symmetry = "p" /\ args.width = 6 /\ args.height = 6
    /\ Len(stack) = 18
    /\ KnightStep(CellOf(17), CellOf(18))

(* C6: solve() is exhaustive: it returns True if and only if a knight's tour
   from the start cell exists (a Hamiltonian path in open mode, a Hamiltonian
   cycle in closed mode); on the 5x5 board with Natural order from (0,0) it
   returns True with a 25-cell path. *)

\* a tour can be completed from cell c, the cells of visited being used up
RECURSIVE TourFrom(_, _)
TourFrom(c, visited) ==
    IF visited = Interior(args)
    THEN args.closed => KnightStep(c, StartCell(args))
    ELSE \E d \in Interior(args) \ visited :
             KnightStep(c, d) /\ TourFrom(d, visited \cup {d})

TourExists == TourFrom(StartCell(args), {StartCell(args)})

\* the board is a tour of the kind asked for, starting at the start cell
BoardIsTour ==
    /\ HoldsEachOnce(total_squares(args))
    /\ StepsAreKnightMoves(total_squares(args))
    /\ board[StartCell(args)] = 0
    /\ args.closed => KnightStep(CellOf(total_squares(args) - 1), StartCell(args))

IsFiveByFiveExample ==
    /\ args.width = 5 /\ args.height = 5 /\ args.search_mode = "dfs"
    /\ ~args.random_moves /\ args.start_x = 0 /\ args.start_y = 0
    /\ ~args.closed /\ PlainRun

C6_Exhaustive ==
    (pc = "done" /\ PlainRun) =>
        /\ found => BoardIsTour
        /\ ~found => ~TourExists
        /\ IsFiveByFiveExample =>
               /\ found
               /\ \A i \in 1 .. 25 : InUserRange(get_path(args, board)[i])

C6_Witness ==
    /\ Returned(FALSE) /\ PlainRun /\ ~args.closed
    /\ args.width = 3 /\ args.height = 4 /\ args.start_x = 0 /\ args.start_y = 1
    /\ stack = <<>>
    /\ ~TourExists

(* C7: on every finite board and for every start, mode and flag combination
   solve() and _solve_symmetric() terminate: the run eventually reaches Found
   (return True) or ExhaustedAll (stack empty, return False), or the limit
   abort or a validation error of main(). *)
Terminated == pc \in {"done", "rejected"}

C8_ParityRejection ==
    (args.closed /\ args.width % 2 = 1 /\ args.height % 2 = 1) =>
        /\ pc \in {"main", "rejected"}
        /\ board = NoBoard
        /\ stack = <<>>
        /\ trials = 0
        /\ found = FALSE

C8_Witness ==
    /\ pc = "rejected"
    /\ args.closed /\ args.width = 5 /\ args.height = 5
    /\ ~StartOutOfRange(args) /\ PlainRun
    /\ board = NoBoard /\ trials = 0

(* C9: every symmetric configuration that passes main()'s validation has no
   self-mirrored interior cell: the width is even for h, the height for v,
   both for p, so mirror(c) # c for every interior cell c, mirror(start) #
   start, and _solve_symmetric() runs on no other configuration. *)
C9_NoSelfMirror ==
    (SymmetricRun /\ pc \notin {"main", "rejected"}) =>
        /\ args.symmetry \in {"h", "p"} => args.width % 2 = 0
        /\ args.symmetry \in {"v", "p"} => args.height % 2 = 0
        /\ \A c \in Interior(args) :
               _mirror(args, c) # c /\ _mirror(args, c) \in Interior(args)
        /\ start_b(args) # StartCell(args)

C9_Witness ==
    /\ pc = "symmetric" /\ args.symmetry = "h"
    /\ args.width = 4 /\ args.height = 3
    /\ Len(stack) = 3
    /\ board[start_b(args)] = MIRROR_BLOCKED

(* C10: with a fixed (non-shuffled) offset order and a fixed strategy the
   search is deterministic: a second run on the same width, height, start,
   mode and flags goes through the same sequence of states as the first and
   ends with the same result, the same board and path and the same trial
   count. *)
C10_Determinism ==
    (run = 2 /\ ~args.random_moves) =>
        /\ Len(log) <= Len(first)
        /\ log = SubSeq(first, 1, Len(log))
        /\ Terminated =>
               /\ log = first
               /\ found = first[Len(first)].found
               /\ board = first[Len(first)].board
               /\ trials = first[Len(first)].trials
        /\ pc = "done" =>
               get_path(args, board) = get_path(args, first[Len(first)].board)

C10_Witness ==
    /\ run = 2 /\ ~args.random_moves
    /\ Returned(TRUE) /\ args.search_mode = "centrifugal"
    /\ Len(log) > 40
    /\ log = first

(* C11: at the top of every loop iteration of solve() and _solve_symmetric()
   the cells holding a move number are exactly the positions of the frames on
   the stack, the i-th frame from the bottom sits on the cell holding move
   number i, no move number is on two cells and the start is the one cell
   holding 0: a return to depth d leaves no numbered cell outside the path. *)
AtLoopTop == pc \in {"solve", "symmetric"} /\ stack # <<>>

Numbered == {c \in DOMAIN board : board[c] >= 0}

C11_StackIsPath ==
    AtLoopTop =>
        /\ \A i \in 1 .. Len(stack) :
               stack[i].move_num = i - 1 /\ board[Pos(stack[i])] = i - 1
        /\ Numbered = {Pos(stack[i]) : i \in 1 .. Len(stack)}
        /\ \A c, d \in Numbered : board[c] = board[d] => c = d
        /\ {c \in DOMAIN board : board[c] = 0} = {StartCell(args)}

\* back at depth 3 after the subtrees of two candidates were searched and undone
C11_Witness ==
    /\ AtLoopTop /\ SymmetricRun
    /\ Len(stack) = 3 /\ Top.next_index = 2
    /\ Cardinality(Numbered) = 3

(* C12: with a trial limit of 1 configured on any board of more than one
   cell, every search, solve() as well as _solve_symmetric(), reports
   not-found without completing the search (frames are still on the stack
   when it returns). *)
C12_LimitOneStopsSearch ==
    (pc = "done" /\ args.limit = 1 /\ total_squares(args) > 1) =>
        /\ found = FALSE
        /\ stack # <<>>

(* C13: a trial-limit abort is distinguishable from true exhaustion: when
   _solve_symmetric() with limit L >= 1 returns False, the trial count is
   >= L if and only if the return was the limit abort (frames still on the
   stack), and < L if and only if the stack was emptied. *)
C13_AbortDistinguishable ==
    (Returned(FALSE) /\ SymmetricRun /\ args.limit >= 1) =>
        /\ trials >= args.limit <=> stack # <<>>
        /\ trials < args.limit <=> stack = <<>>

\* the 4x3 search is exhausted after 136 examinations, one short of the limit
C13_Witness ==
    /\ Returned(FALSE) /\ SymmetricRun
    /\ args.width = 4 /\ args.height = 3 /\ args.limit = 137
    /\ stack = <<>> /\ trials = 136

(* C14: when _solve_symmetric() aborts on a trial limit L >= 1 the trial
   count at return satisfies L <= trials <= L - 1 + B, B being the most one
   strategy call records (8 for Natural and Centrifugal, 8 + 8*8 = 72 for
   NarrowestFirst); the limit is tested once per loop iteration before the top
   frame is inspected, so the count never passes L - 1 + B while the loop runs
   and a run that returns True has a count below L. *)
MaxBatch(a) == IF a.search_mode = "warnsdorff" THEN 72 ELSE 8

C14_BoundedOvershoot ==
    (SymmetricRun /\ args.limit >= 1 /\ pc \in {"symmetric", "done"}) =>
        /\ trials <= args.limit - 1 + MaxBatch(args)
        /\ (Returned(FALSE) /\ stack # <<>>) => trials >= args.limit
        /\ Returned(TRUE) => trials < args.limit

\* NarrowestFirst on the 8x8 board passes the limit of 100 by 4
C14_Witness ==
    /\ Returned(FALSE) /\ SymmetricRun /\ stack # <<>>
    /\ args.search_mode = "warnsdorff" /\ args.limit = 100
    /\ trials = 104

(* C15: every board cell read or written during a search (candidate
   filtering from the current cell, the NarrowestFirst degree computation from
   each candidate, marking, mirror-blocking and unmarking) has physical
   coordinates inside [0,width+4) x [0,height+4), none negative, because
   lookups are only made at a knight offset from an interior cell. *)

\* the cells the strategies look up from: the cell of a frame (candidate
\* filtering) and the candidates it found (degree computation)
LookupOrigins ==
    {Pos(stack[i]) : i \in 1 .. Len(stack)}
      \cup UNION {{stack[i].moves[j] : j \in 1 .. Len(stack[i].moves)} : i \in 1 .. Len(stack)}

\* the cells marked, mirror-blocked or unmarked for the frames and candidates
WrittenCells ==
    LookupOrigins
      \cup (IF SymmetricRun THEN {_mirror(args, c) : c \in LookupOrigins} ELSE {})

InPhysicalBounds(c) ==
    /\ c[1] >= 0 /\ c[1] < args.width + 4
    /\ c[2] >= 0 /\ c[2] < args.height + 4
    /\ c \in DOMAIN board

C15_LookupsInBounds ==
    (pc \in {"constructed", "solve", "symmetric", "done"}) =>
        /\ StartCell(args) \in Interior(args)
        /\ LookupOrigins \subseteq Interior(args)
        /\ WrittenCells \subseteq Interior(args)
        /\ \A c \in Interior(args) : \A k \in 1 .. Len(knight_moves) :
               InPhysicalBounds(Targets(knight_moves, c)[k])

\* NarrowestFirst computed a degree from a corner candidate, which reads
\* physical column 0 and row 0
C15_Witness ==
    /\ pc = "symmetric" /\ args.search_mode = "warnsdorff"
    /\ <<2, 2>> \in LookupOrigins
    /\ <<args.width + 1, args.height + 1>> \in WrittenCells
    /\ \E k \in 1 .. Len(knight_moves) : Targets(knight_moves, <<2, 2>>)[k][1] = 0
    /\ \E k \in 1 .. Len(knight_moves) : Targets(knight_moves, <<2, 2>>)[k][2] = 0

(* C16: the documented example "8 8 --symmetry=h" finds a horizontally
   symmetric tour: on the 8x8 board with symmetry h, _solve_symmetric() can
   reach a state where path A has 32 cells and its last cell is one knight
   move from mirror(start), and returns True.  Path A is a chain of knight
   moves from the start, so the claim needs a cell that 31 knight moves from
   the start can end on and that _can_connect links to mirror(start). *)
IsEightByEightH == args.width = 8 /\ args.height = 8 /\ args.symmetry = "h"

\* the interior cells on which a chain of k knight moves from a cell of from can end
RECURSIVE WalkEnds(_, _)
WalkEnds(from, k) ==
    IF k = 0 THEN from
    ELSE WalkEnds(UNION {{t \in {Targets(knight_moves, c)[i] : i \in 1 .. Len(knight_moves)} :
                             t \in Interior(args)} : c \in from},
                  k - 1)

\* some cell can hold the last move of path A and link to the mirror of the start
PathACanClose ==
    \E c \in WalkEnds({StartCell(args)}, half_squares(args) - 1) :
        _can_connect(knight_moves, c, start_b(args))

C16_EightByEightH ==
    (IsEightByEightH /\ pc = "symmetric") => PathACanClose

\* every frame of a symmetric search sits where a chain of move_num knight
\* moves from the start can end, and a search accepts only where path A can
\* close: WalkEnds covers every state the search reaches
FramesAreWalkEnds ==
    (pc = "symmetric" /\ stack # <<>>) =>
        /\ Pos(Top) \in WalkEnds({StartCell(args)}, Top.move_num)
        /\ SymAccepts(args, knight_moves, Top) => PathACanClose

\* the 8x8 search fills path A (32 frames) without ever being able to accept
EightByEightHNeverAccepts ==
    IsEightByEightH =>
        /\ ~found
        /\ (pc = "symmetric" /\ stack # <<>>) => ~SymAccepts(args, knight_moves, Top)

(* C17: the search is first-fit: the tour solve() returns is the first
   complete tour in depth-first order of the per-frame candidate lists (no
   candidate listed before the one taken leads to a tour); under Natural order
   it is the tour whose sequence of offset indices is lexicographically
   smallest among all tours from the start cell (no smaller offset at any step
   leads to a tour). *)
PrefixCells(i) == {Pos(stack[p]) : p \in 1 .. i}

\* the index in knight_moves of the step from frame p to frame p + 1
OffsetIndex(p) ==
    CHOOSE k \in 1 .. Len(knight_moves) :
        Targets(knight_moves, Pos(stack[p]))[k] = Pos(stack[p + 1])

C17_FirstFit ==
    (Returned(TRUE) /\ PlainRun) =>
        /\ Len(stack) = total_squares(args)
        /\ \A p \in 1 .. Len(stack) - 1 :
               /\ stack[p].next_index >= 1
               /\ Pos(stack[p + 1]) = stack[p].moves[stack[p].next_index]
               /\ \A j \in 1 .. stack[p].next_index - 1 :
                      ~TourFrom(stack[p].moves[j], PrefixCells(p) \cup {stack[p].moves[j]})
        /\ args.search_mode = "dfs" =>
               \A p \in 1 .. Len(stack) - 1 : \A k \in 1 .. OffsetIndex(p) - 1 :
                   LET t == Targets(knight_moves, Pos(stack[p]))[k]
                   IN  (t \in Interior(args) \ PrefixCells(p)) =>
                           ~TourFrom(t, PrefixCells(p) \cup {t})

\* the 5x5 Natural tour, found after candidates were tried and given up
C17_Witness ==
    /\ Returned(TRUE) /\ PlainRun /\ args.search_mode = "dfs"
    /\ args.width = 5 /\ args.height = 5
    /\ \E p \in 1 .. Len(stack) - 1 : stack[p].next_index > 1 /\ OffsetIndex(p) > 2

(* C18: constructing the board fails when width or height is non-positive
   (no solver and no board come to exist), and succeeds for all positive
   dimensions, yielding a (width+4) x (height+4) grid in which every cell of
   the 2-wide border is Blocked and every interior cell is Empty. *)

\* the grid of a constructed solver: (width+4) x (height+4), border Blocked, interior Empty
ConstructedBoardShape ==
    (pc = "constructed" /\ args.width > 0 /\ args.height > 0) =>
        /\ DOMAIN board = (0 .. args.width + 3) \X (0 .. args.height + 3)
        /\ \A c \in DOMAIN board :
               board[c] = IF /\ c[1] >= 2 /\ c[1] <= args.width + 1
                             /\ c[2] >= 2 /\ c[2] <= args.height + 1
                          THEN EMPTY ELSE BLOCKED

C18_BoardConstruction ==
    /\ (args.width <= 0 \/ args.height <= 0) => (pc = "main" /\ board = NoBoard)
    /\ ConstructedBoardShape

(* C19: get_path() called on a board that does not hold a confirmed
   solution returns an incomplete path without raising: the entry of every
   move number in 0 .. width*height-1 that is on no interior cell is None; all
   entries after a failed solve(), all but entry 0 (the start) after a failed
   or aborted-at-depth-1 _solve_symmetric(). *)
C19_IncompletePath ==
    Returned(FALSE) =>
        LET path == get_path(args, board)
            total == total_squares(args)
        IN  /\ Len(path) = total
            /\ \A n \in 0 .. total - 1 :
                   IF Holders(n) = {} THEN path[n + 1] = None ELSE InUserRange(path[n + 1])
            /\ PlainRun => \A n \in 0 .. total - 1 : path[n + 1] = None
            /\ (SymmetricRun /\ Len(stack) <= 1) =>
                   /\ path[1] = <<args.start_x, args.start_y>>
                   /\ \A n \in 1 .. total - 1 : path[n + 1] = None

\* the symmetric search of the 4x3 board gave up after a real search
C19_Witness ==
    /\ Returned(FALSE) /\ SymmetricRun /\ stack = <<>>
    /\ args.width = 4 /\ args.height = 3 /\ trials >= 136
    /\ get_path(args, board)[1] = <<args.start_x, args.start_y>>
    /\ get_path(args, board)[12] = None

(* C20: the Natural strategy returns, for any board state and interior
   position, exactly the cells pos+offset that are Empty, in the order of the
   fixed offset list: no cell omitted, none duplicated, no non-Empty cell
   included. *)

\* the position in knight_moves of the offset that leads from c to t
OffsetOf(c, t) ==
    CHOOSE k \in 1 .. Len(knight_moves) :
        c[1] + knight_moves[k][1] = t[1] /\ c[2] + knight_moves[k][2] = t[2]

NaturalListIsExact(c) ==
    LET r == _ordered_moves_plain(board, knight_moves, c)
    IN  /\ \A i \in 1 .. Len(r) : KnightStep(c, r[i]) /\ board[r[i]] = EMPTY
        /\ \A d \in Interior(args) :
               (board[d] = EMPTY /\ KnightStep(c, d)) => \E i \in 1 .. Len(r) : r[i] = d
        /\ \A i \in 1 .. Len(r) - 1 : OffsetOf(c, r[i]) < OffsetOf(c, r[i + 1])

C20_NaturalStrategy ==
    (pc \in {"constructed", "solve", "symmetric", "done"}) =>
        /\ \A d \in DOMAIN board \ Interior(args) : board[d] # EMPTY
        /\ \A c \in Interior(args) : NaturalListIsExact(c)

\* from one cell the strategy passes over a visited, a mirror-blocked and a
\* border cell and still lists at least two Empty ones
C20_Witness ==
    /\ pc = "symmetric"
    /\ \E c \in Interior(args) :
          LET t == Targets(knight_moves, c)
          IN  /\ Len(_ordered_moves_plain(board, knight_moves, c)) >= 2
              /\ \E k \in 1 .. Len(t) : board[t[k]] >= 0
              /\ \E k \in 1 .. Len(t) : board[t[k]] = MIRROR_BLOCKED
              /\ \E k \in 1 .. Len(t) : board[t[k]] = BLOCKED

(* C21: the NarrowestFirst strategy returns exactly the Empty neighbours of
   the position, sorted by non-decreasing onward degree, the degree of a
   candidate being the number of Empty cells one knight offset away from it
   in the current board state (the marked current cell and MirrorBlocked
   cells do not count); candidates of equal degree keep their relative
   offset-list order. *)

\* the top frame was pushed by the last step: its candidate list is the
\* strategy's answer on the board as it is now
JustPushed == AtLoopTop /\ Top.next_index = 0

EmptyNeighbours(c) == {d \in Interior(args) : board[d] = EMPTY /\ KnightStep(c, d)}

OnwardDegree(d) == Cardinality(EmptyNeighbours(d))

\* r lists the Empty neighbours of c, each once
ListsEmptyNeighbours(r, c) ==
    /\ {r[i] : i \in 1 .. Len(r)} = EmptyNeighbours(c)
    /\ Len(r) = Cardinality(EmptyNeighbours(c))

C21_NarrowestFirst ==
    (JustPushed /\ args.search_mode = "warnsdorff") =>
        LET r == Top.moves
            c == Pos(Top)
        IN  /\ ListsEmptyNeighbours(r, c)
            /\ \A i \in 1 .. Len(r) - 1 :
                   \/ OnwardDegree(r[i]) < OnwardDegree(r[i + 1])
                   \/ /\ OnwardDegree(r[i]) = OnwardDegree(r[i + 1])
                      /\ OffsetOf(c, r[i]) < OffsetOf(c, r[i + 1])

\* the sort moved a candidate forward, kept a tie in offset order and
\* ignored a mirror-blocked neighbour of a candidate
C21_Witness ==
    /\ JustPushed /\ args.search_mode = "warnsdorff" /\ SymmetricRun
    /\ LET r == Top.moves
           c == Pos(Top)
       IN  /\ Len(r) >= 3
           /\ \E i \in 1 .. Len(r) - 1 : OffsetOf(c, r[i]) > OffsetOf(c, r[i + 1])
           /\ \E i \in 1 .. Len(r) - 1 : OnwardDegree(r[i]) = OnwardDegree(r[i + 1])
           /\ \E i \in 1 .. Len(r) : \E d \in Interior(args) :
                  KnightStep(r[i], d) /\ board[d] = MIRROR_BLOCKED

(* C22: the Centrifugal strategy returns exactly the Empty neighbours of the
   position, sorted by non-increasing squared distance to the board centre
   ((width-1)/2+2, (height-1)/2+2), i.e. by non-increasing
   (2x-(width+3))^2 + (2y-(height+3))^2; candidates at equal distance keep
   their relative offset-list order. *)
FourTimesSquaredDistance(d) ==
    (2 * d[1] - (args.width + 3)) * (2 * d[1] - (args.width + 3))
  + (2 * d[2] - (args.height + 3)) * (2 * d[2] - (args.height + 3))

C22_Centrifugal ==
    (JustPushed /\ args.search_mode = "centrifugal") =>
        LET r == Top.moves
            c == Pos(Top)
        IN  /\ ListsEmptyNeighbours(r, c)
            /\ \A i \in 1 .. Len(r) - 1 :
                   \/ FourTimesSquaredDistance(r[i]) > FourTimesSquaredDistance(r[i + 1])
                   \/ /\ FourTimesSquaredDistance(r[i]) = FourTimesSquaredDistance(r[i + 1])
                      /\ OffsetOf(c, r[i]) < OffsetOf(c, r[i + 1])

\* the sort moved a farther candidate forward and kept a tie in offset order
C22_Witness ==
    /\ JustPushed /\ args.search_mode = "centrifugal"
    /\ LET r == Top.moves
           c == Pos(Top)
       IN  /\ Len(r) >= 3
           /\ \E i \in 1 .. Len(r) - 1 : OffsetOf(c, r[i]) > OffsetOf(c, r[i + 1])
           /\ \E i \in 1 .. Len(r) - 1 :
                  FourTimesSquaredDistance(r[i]) = FourTimesSquaredDistance(r[i + 1])

(* C23: each call of a move-ordering strategy increases the trial counter
   by exactly 8 for Natural and Centrifugal and by exactly 8 + 8*k for
   NarrowestFirst, k being the number of Empty candidates returned; a strategy
   is called once for every frame pushed and nothing else changes the counter,
   so it never decreases during a search. *)
SearchStep == pc \in {"constructed", "solve", "symmetric"}

\* what the call that produced candidate list r charges
ChargedFor(r) == IF args.search_mode = "warnsdorff" THEN 8 + 8 * Len(r) ELSE 8

C23_TrialAccounting ==
    [][SearchStep =>
          /\ trials' >= trials
          /\ IF Len(stack') = Len(stack) + 1
             THEN trials' = trials + ChargedFor(stack'[Len(stack')].moves)
             ELSE trials' = trials]_vars

\* two NarrowestFirst calls, the start's and the first descent's, with
\* different numbers of candidates
C23_Witness ==
    /\ pc = "solve" /\ args.search_mode = "warnsdorff"
    /\ Len(stack) = 2 /\ stack[1].next_index = 1 /\ stack[2].next_index = 0
    /\ Len(stack[1].moves) # Len(stack[2].moves)
    /\ Len(stack[2].moves) >= 2
    /\ trials = (8 + 8 * Len(stack[1].moves)) + (8 + 8 * Len(stack[2].moves))

(* C24: in closed mode a full-length path whose last cell cannot reach the
   start does not end the search: the frame at full depth always has an empty
   candidate list, so the next step is a backtrack (unmark and pop) and the
   search goes on with the remaining candidates of shallower frames; the same
   holds in symmetric mode when path A has half the squares but cannot reach
   mirror(start). *)
FullNoLink ==
    /\ pc = "solve" /\ args.closed /\ stack # <<>>
    /\ Top.move_num + 1 = total_squares(args)
    /\ ~_can_connect(knight_moves, Pos(Top), StartCell(args))

HalfNoLink ==
    /\ pc = "symmetric" /\ stack # <<>>
    /\ Top.move_num + 1 = half_squares(args)
    /\ ~_can_connect(knight_moves, Pos(Top), start_b(args))

\* the step pops the top frame and the search goes on
PopsAndGoesOn ==
    /\ stack' = SubSeq(stack, 1, Len(stack) - 1)
    /\ pc' = pc /\ found' = found /\ trials' = trials

\* the step empties the cell of the top frame (and its mirror in symmetric mode)
UnmarksTop ==
    board' = IF SymmetricRun
             THEN [[board EXCEPT ![Pos(Top)] = EMPTY] EXCEPT ![_mirror(args, Pos(Top))] = EMPTY]
             ELSE [board EXCEPT ![Pos(Top)] = EMPTY]

\* the claim as stated
C24_NoLinkBacktracks ==
    [][(FullNoLink \/ HalfNoLink) =>
          /\ Top.moves = <<>>
          /\ PopsAndGoesOn
          /\ UnmarksTop]_vars

\* amended: in symmetric mode the limit test comes first, and the start frame
\* is popped without being unmarked
C24_NoLinkBacktracksUnlessLimit ==
    [][(FullNoLink \/ HalfNoLink) =>
          /\ Top.moves = <<>>
          /\ IF HalfNoLink /\ LimitReached(args, trials)
             THEN pc' = "done" /\ found' = FALSE /\ UNCHANGED <<board, stack, trials>>
             ELSE /\ PopsAndGoesOn
                  /\ IF HalfNoLink /\ Top.move_num = 0
                     THEN board' = board /\ total_squares(args) = 2
                     ELSE UnmarksTop]_vars

\* a closed search is back one frame below full depth after a full-length
\* path was pushed, found unable to return, and popped
C24_Witness ==
    /\ pc = "solve" /\ args.closed
    /\ total_squares(args) >= 12
    /\ Len(stack) = total_squares(args) - 1
    /\ Top.next_index = 1 /\ Len(Top.moves) >= 1
    /\ board[Top.moves[1]] = EMPTY

(* C25: the engine only marks a cell that is Empty at the moment of marking
   and only reverts to Empty a cell it marked itself: every candidate solve()
   takes from a frame's list is Empty when taken, and in _solve_symmetric()
   the mirror cell written to MirrorBlocked is Empty just before the write. *)
Pushed == stack'[Len(stack')]

\* a step that stays inside the search loop (or enters it)
LoopStep == SearchStep /\ pc' \in {"solve", "symmetric"}

C25_MarksOnlyEmpty ==
    [][LoopStep =>
          IF Len(stack') = Len(stack) + 1
          THEN LET n == Pos(Pushed)
               IN  /\ n \in Interior(args)
                   /\ board[n] = EMPTY
                   /\ IF args.symmetry = NoSymmetry
                      THEN board' = [board EXCEPT ![n] = Pushed.move_num]
                      ELSE /\ board[_mirror(args, n)] = EMPTY
                           /\ board' = [[board EXCEPT ![n] = Pushed.move_num]
                                           EXCEPT ![_mirror(args, n)] = MIRROR_BLOCKED]
          ELSE IF Len(stack') = Len(stack) - 1 /\ board' # board
          THEN /\ board[Pos(Top)] = Top.move_num
               /\ IF args.symmetry = NoSymmetry
                  THEN board' = [board EXCEPT ![Pos(Top)] = EMPTY]
                  ELSE /\ board[_mirror(args, Pos(Top))] = MIRROR_BLOCKED
                       /\ board' = [[board EXCEPT ![Pos(Top)] = EMPTY]
                                       EXCEPT ![_mirror(args, Pos(Top))] = EMPTY]
          ELSE board' = board]_vars

\* a symmetric search has marked, unmarked and marked again: the second
\* candidate of the start frame is on the board with its mirror blocked
C25_Witness ==
    /\ pc = "symmetric"
    /\ Len(stack) = 2
    /\ stack[1].next_index = 2
    /\ board[stack[1].moves[1]] = EMPTY
    /\ board[_mirror(args, stack[1].moves[1])] = EMPTY
    /\ board[Pos(Top)] = 1
    /\ board[_mirror(args, Pos(Top))] = MIRROR_BLOCKED

(* C26: in symmetric mode on a validated configuration, at the top of every
   loop iteration the MirrorBlocked cells are exactly the mirrors of the cells
   on the stack (path A): the two sets are disjoint, both have as many
   elements as the stack has frames, and no MirrorBlocked cell appears in a
   candidate list or holds a move number before acceptance. *)
MirrorBlockedCells == {c \in Interior(args) : board[c] = MIRROR_BLOCKED}
StackCells == {Pos(stack[i]) : i \in 1 .. Len(stack)}

MirrorsOfPathA ==
    /\ MirrorBlockedCells = {_mirror(args, c) : c \in StackCells}
    /\ MirrorBlockedCells \cap StackCells = {}
    /\ Cardinality(MirrorBlockedCells) = Len(stack)
    /\ Cardinality(StackCells) = Len(stack)
    /\ \A c \in StackCells : board[c] >= 0

NotMirrorBlocked(moves) == \A j \in 1 .. Len(moves) : board[moves[j]] # MIRROR_BLOCKED

\* the claim as stated: no candidate list of any frame
C26_MirrorBlockedIsMirrorOfStack ==
    (pc = "symmetric" /\ stack # <<>>) =>
        /\ MirrorsOfPathA
        /\ \A i \in 1 .. Len(stack) : NotMirrorBlocked(stack[i].moves)

\* amended: the candidate list of the top frame
C26_MirrorBlockedIsMirrorOfPathA ==
    (pc = "symmetric" /\ stack # <<>>) =>
        /\ MirrorsOfPathA
        /\ NotMirrorBlocked(Top.moves)

\* three frames deep, with the list of a frame below the top holding a cell
\* that was blocked after the list was computed
C26_Witness ==
    /\ pc = "symmetric"
    /\ Len(stack) >= 3
    /\ Top.moves # <<>>
    /\ ~NotMirrorBlocked(stack[1].moves)
    /\ Cardinality(MirrorBlockedCells) = Len(stack)

(* C27: when _solve_symmetric() ends by exhaustion (stack emptied) the start
   cell still holds move number 0, mirror(start) is still MirrorBlocked and
   every other interior cell is Empty. *)
SymExhaustedState ==
    /\ SymmetricRun
    /\ stack = <<>>
    /\ \/ pc = "symmetric"
       \/ pc = "done" /\ found = FALSE

C27_ExhaustedSymmetricBoard ==
    SymExhaustedState =>
        /\ board[StartCell(args)] = 0
        /\ board[start_b(args)] = MIRROR_BLOCKED
        /\ \A c \in Interior(args) \ {StartCell(args), start_b(args)} : board[c] = EMPTY

\* the 4x3 search has returned False after pushing and popping frames
C27_Witness ==
    /\ SymExhaustedState
    /\ pc = "done"
    /\ total_squares(args) = 12
    /\ args.limit = NoLimit
    /\ trials >= 100

(* C28: the stack size always equals the move number of the top frame plus
   one and the i-th frame (from 0) has move number i; the size never exceeds
   width*height in solve() and never exceeds (width*height)/2 in
   _solve_symmetric(), so during a symmetric search no move number >= half
   is on the board. *)
C28_StackDepth ==
    (pc \in {"solve", "symmetric", "done"}) =>
        /\ \A i \in 1 .. Len(stack) : stack[i].move_num = i - 1
        /\ stack # <<>> => Len(stack) = Top.move_num + 1
        /\ Len(stack) <= IF SymmetricRun THEN half_squares(args) ELSE total_squares(args)
        /\ pc = "symmetric" => \A c \in Interior(args) : board[c] < half_squares(args)

\* a symmetric search at its greatest depth, the last number of path A written
C28_Witness ==
    /\ pc = "symmetric"
    /\ half_squares(args) >= 6
    /\ Len(stack) = half_squares(args)
    /\ board[Pos(Top)] = half_squares(args) - 1
    /\ Top.next_index = 0

(* C29: a call of any move-ordering strategy (Natural, NarrowestFirst
   including its degree computation, Centrifugal) leaves every board cell, the
   offset list and the stack unchanged; its only effect is on the trial
   counter. *)
\* a step that calls the strategy: lines 259, 300, 350, 398
CallsStrategy == SearchStep /\ Len(stack') = Len(stack) + 1

\* the board differs from b at most where the caller wrote before the call
OnlyCallerWrites(b, n) ==
    IF SymmetricRun
    THEN board' = [[b EXCEPT ![n] = board'[n]] EXCEPT ![_mirror(args, n)] = board'[_mirror(args, n)]]
    ELSE board' = [b EXCEPT ![n] = board'[n]]

\* the frames the stack held are what they were, the cursor of the top one advanced
FramesKept ==
    \A i \in 1 .. Len(stack) :
        stack'[i] = IF i = Len(stack) THEN [stack[i] EXCEPT !.next_index = @ + 1] ELSE stack[i]

C29_StrategiesOnlyCount ==
    [][CallsStrategy =>
          /\ knight_moves' = knight_moves
          /\ OnlyCallerWrites(board, Pos(Pushed))
          /\ FramesKept
          /\ Pushed.moves = _move_generator(args, board', knight_moves', Pos(Pushed))
          /\ trials' = trials + Recorded(args, board', knight_moves', Pos(Pushed))
          /\ UNCHANGED <<args, found>>]_vars

\* the second call of NarrowestFirst in a search with a shuffled offset list:
\* the list is still the one the constructor left
C29_Witness ==
    /\ pc = "solve"
    /\ args.search_mode = "warnsdorff"
    /\ knight_moves # BASE_KNIGHT_MOVES
    /\ Len(stack) = 2
    /\ Top.next_index = 0
    /\ Len(Top.moves) >= 2
    /\ trials > 16

(* C30: no search step ever changes a border cell: all cells outside the
   interior [2,width+2) x [2,height+2) are Blocked at construction and stay
   Blocked in every reachable state of solve() and, on validated
   configurations, of _solve_symmetric(); the mirror functions map interior
   cells to interior cells. *)
Border == DOMAIN board \ Interior(args)

C30_BorderStaysBlocked ==
    (pc \in {"constructed", "solve", "symmetric", "done"}) =>
        /\ \A c \in Border : board[c] = BLOCKED
        /\ SymmetricRun => \A c \in Interior(args) : _mirror(args, c) \in Interior(args)

\* a symmetric search has returned True: every interior cell, the ones along
\* the border included, was written and renumbered
C30_Witness ==
    /\ pc = "done" /\ found /\ SymmetricRun
    /\ board[<<2, 2>>] >= 0
    /\ board[<<args.width + 1, args.height + 1>>] >= 0
    /\ board[<<1, 1>>] = BLOCKED
    /\ board[<<args.width + 2, args.height + 2>>] = BLOCKED

(* C31: the offset order and the selected strategy are fixed for the whole
   search: after construction no step of solve() or _solve_symmetric()
   changes knight_moves or the selected move generator; only the per-frame
   candidate lists differ in order. *)
\* the strategy the constructor selected for search mode m (lines 154-162)
SelectedStrategy(m, b, c) ==
    IF m = "dfs" THEN _ordered_moves_plain(b, knight_moves, c)
    ELSE IF m = "centrifugal" THEN _ordered_moves_centrifugal(args, b, knight_moves, c)
    ELSE _ordered_moves_warnsdorff(b, knight_moves, c)

SameCells(r, t) == {r[i] : i \in 1 .. Len(r)} = {t[i] : i \in 1 .. Len(t)} /\ Len(r) = Len(t)

C31_OrderAndStrategyFixed ==
    [][SearchStep =>
          /\ knight_moves' = knight_moves
          /\ args'.search_mode = args.search_mode
          /\ args'.random_moves = args.random_moves
          /\ Len(stack') = Len(stack) + 1 =>
                /\ Pushed.moves = SelectedStrategy(args.search_mode, board', Pos(Pushed))
                /\ SameCells(Pushed.moves, _ordered_moves_plain(board', knight_moves, Pos(Pushed)))]_vars

\* a search on shuffled offsets, past several backtracks: the order is the
\* constructor's and the list just stored differs from the natural one
C31_Witness ==
    /\ pc = "solve"
    /\ args.random_moves
    /\ knight_moves # BASE_KNIGHT_MOVES
    /\ Len(stack) >= 3
    /\ stack[1].next_index >= 2
    /\ Top.next_index = 0
    /\ Top.moves # _ordered_moves_plain(board, knight_moves, Pos(Top))

-----------------------------------------------------------------------------
(* knight-03-oo.py and knight-04-border.py: the recursive search with a range
   check and with the sentinel border.  A run is the board, the call stack of
   _backtrack (one frame per active call: its cell, its move_num parameter and
   the number i of offsets its for loop has consumed), the trial counter and
   the result.  One step is one pass through the loop body, or one return. *)

\* the state of main09 stays as it is while an earlier version runs
main09 == <<args, board, knight_moves, stack, trials, pc, found, run, log, first>>

KNIGHT_MOVES ==
    << <<2, 1>>, <<1, 2>>, <<-1, 2>>, <<-2, 1>>,
       <<-2, -1>>, <<-1, -2>>, <<1, -2>>, <<2, -1>> >>

Call(c, n) == [x |-> c[1], y |-> c[2], move_num |-> n, i |-> 0]

Running(k) == k.result = "running"
Finished(k) == k.result \in {"True", "False"}
TopCall(k) == k.frames[Len(k.frames)]

\* the for loop of the top call moves on to its next offset
NextOffset(k) == [k.frames EXCEPT ![Len(k.frames)].i = @ + 1]

\* knight-03: KnightTourSolver(width, height)
Solver03(a) ==
    [board |-> [c \in (0 .. a.width - 1) \X (0 .. a.height - 1) |-> -1],
     frames |-> <<>>, trials |-> 0, result |-> "new", steps |-> 0]

is_valid(a, b, c) ==
    /\ 0 <= c[1] /\ c[1] < a.width
    /\ 0 <= c[2] /\ c[2] < a.height
    /\ b[c] = -1

\* knight-04: KnightTourSolver(width, height)
Solver04(a) ==
    [board |-> NewBoard(a),
     frames |-> <<>>, trials |-> 0, result |-> "new", steps |-> 0]

\* mutant: any cell that is not a border cell passes
valid04_NotBlocked(b, c) == b[c] # BLOCKED

\* knight-04 line 85: valid = (self.board[ny][nx] == self.EMPTY)
valid04(b, c) == b[c] = EMPTY

\* the two programs are run side by side, knight-03 one step ahead at most
Turn03 == k03.steps = k04.steps
Turn04 == k04.steps < k03.steps \/ Finished(k03)

\* knight-03 solve()
K03Solve ==
    /\ Turn03
    /\ k03.result = "new"
    /\ k03' = [k03 EXCEPT !.board[<<0, 0>>] = 0,
                          !.frames = <<Call(<<0, 0>>, 1)>>,
                          !.result = "running",
                          !.steps = @ + 1]
    /\ UNCHANGED <<main09, mirror_call, k04, k05, k06>>

\* knight-03 _backtrack: move_num == width * height, return True (in every caller too)
K03Complete ==
    /\ Turn03
    /\ Running(k03)
    /\ TopCall(k03).move_num = total_squares(args)
    /\ k03' = [k03 EXCEPT !.frames = <<>>, !.result = "True", !.steps = @ + 1]
    /\ UNCHANGED <<main09, mirror_call, k04, k05, k06>>

\* knight-03 _backtrack: one offset is examined, and taken if valid
K03Examine ==
    /\ Turn03
    /\ Running(k03)
    /\ TopCall(k03).move_num # total_squares(args)
    /\ TopCall(k03).i < Len(KNIGHT_MOVES)
    /\ LET t == TopCall(k03)
           d == KNIGHT_MOVES[t.i + 1]
           n == <<t.x + d[1], t.y + d[2]>>
       IN  k03' = IF is_valid(args, k03.board, n)
                  THEN [k03 EXCEPT !.board[n] = t.move_num,
                                   !.frames = Append(NextOffset(k03), Call(n, t.move_num + 1)),
                                   !.trials = @ + 1,
                                   !.steps = @ + 1]
                  ELSE [k03 EXCEPT !.frames = NextOffset(k03),
                                   !.trials = @ + 1,
                                   !.steps = @ + 1]
    /\ UNCHANGED <<main09, mirror_call, k04, k05, k06>>

\* knight-03 _backtrack: the loop is over, return False; the caller resets the cell
K03GiveUp ==
    /\ Turn03
    /\ Running(k03)
    /\ TopCall(k03).move_num # total_squares(args)
    /\ TopCall(k03).i >= Len(KNIGHT_MOVES)
    /\ LET t == TopCall(k03)
           rest == SubSeq(k03.frames, 1, Len(k03.frames) - 1)
       IN  k03' = IF rest # <<>>
                  THEN [k03 EXCEPT !.board[<<t.x, t.y>>] = -1,
                                   !.frames = rest,
                                   !.steps = @ + 1]
                  ELSE [k03 EXCEPT !.frames = rest, !.result = "False", !.steps = @ + 1]
    /\ UNCHANGED <<main09, mirror_call, k04, k05, k06>>

\* knight-04 solve()
K04Solve ==
    /\ Turn04
    /\ k04.result = "new"
    /\ k04' = [k04 EXCEPT !.board[<<2, 2>>] = 0,
                          !.frames = <<Call(<<2, 2>>, 1)>>,
                          !.result = "running",
                          !.steps = @ + 1]
    /\ UNCHANGED <<main09, mirror_call, k03, k05, k06>>

\* knight-04 _backtrack: move_num == width * height, return True
K04Complete ==
    /\ Turn04
    /\ Running(k04)
    /\ TopCall(k04).move_num = total_squares(args)
    /\ k04' = [k04 EXCEPT !.frames = <<>>, !.result = "True", !.steps = @ + 1]
    /\ UNCHANGED <<main09, mirror_call, k03, k05, k06>>

\* knight-04 _backtrack: one offset is examined, and taken if the cell is Empty
K04Examine ==
    /\ Turn04
    /\ Running(k04)
    /\ TopCall(k04).move_num # total_squares(args)
    /\ TopCall(k04).i < Len(KNIGHT_MOVES)
    /\ LET t == TopCall(k04)
           d == KNIGHT_MOVES[t.i + 1]
           n == <<t.x + d[1], t.y + d[2]>>
       IN  k04' = IF valid04(k04.board, n)
                  THEN [k04 EXCEPT !.board[n] = t.move_num,
                                   !.frames = Append(NextOffset(k04), Call(n, t.move_num + 1)),
                                   !.trials = @ + 1,
                                   !.steps = @ + 1]
                  ELSE [k04 EXCEPT !.frames = NextOffset(k04),
                                   !.trials = @ + 1,
                                   !.steps = @ + 1]
    /\ UNCHANGED <<main09, mirror_call, k03, k05, k06>>

\* knight-04 _backtrack: the loop is over, return False; the caller resets the cell
K04GiveUp ==
    /\ Turn04
    /\ Running(k04)
    /\ TopCall(k04).move_num # total_squares(args)
    /\ TopCall(k04).i >= Len(KNIGHT_MOVES)
    /\ LET t == TopCall(k04)
           rest == SubSeq(k04.frames, 1, Len(k04.frames) - 1)
       IN  k04' = IF rest # <<>>
                  THEN [k04 EXCEPT !.board[<<t.x, t.y>>] = EMPTY,
                                   !.frames = rest,
                                   !.steps = @ + 1]
                  ELSE [k04 EXCEPT !.frames = rest, !.result = "False", !.steps = @ + 1]
    /\ UNCHANGED <<main09, mirror_call, k03, k05, k06>>

\* the boards the two programs are run on: every board of at most MaxCells
\* cells, and the 5x5 board
BorderBoards ==
    {wh \in (1 .. MaxCells) \X (1 .. MaxCells) : wh[1] * wh[2] <= MaxCells} \cup {<<5, 5>>}

BorderInit ==
    /\ \E wh \in BorderBoards :
         args = Args(wh[1], wh[2], "dfs", FALSE, 0, 0, FALSE, NoSymmetry, NoLimit)
    /\ run = 0
    /\ Fresh
    /\ mirror_call = NoCall
    /\ k03 = Solver03(args)
    /\ k04 = Solver04(args)
    /\ k05 = NotRun /\ k06 = NotRun

BorderNext ==
    \/ K03Solve
    \/ K03Complete
    \/ K03Examine
    \/ K03GiveUp
    \/ K04Solve
    \/ K04Complete
    \/ K04Examine
    \/ K04GiveUp

BorderSpec == BorderInit /\ [][BorderNext]_vars

(* C32: the sentinel-border solver is equivalent to the bounds-checking
   solver: for every interior cell and every offset, board[ny][nx] == EMPTY on
   the bordered grid equals "target is inside the logical board and
   unvisited", so knight-04 and knight-03 run on the same width and height
   visit the same cells in the same order, return the same result, produce the
   same board and record the same number of trials. *)
Shift(c) == <<c[1] + 2, c[2] + 2>>

\* both programs have taken the same number of steps
SameStep == k03.result # "idle" /\ k04.result # "idle" /\ k03.steps = k04.steps

SameCalls ==
    /\ Len(k04.frames) = Len(k03.frames)
    /\ \A j \in 1 .. Len(k03.frames) :
         k04.frames[j] = [k03.frames[j] EXCEPT !.x = @ + 2, !.y = @ + 2]

SameBoards ==
    /\ DOMAIN k04.board = PhysCells(args)
    /\ \A c \in DOMAIN k03.board : k04.board[Shift(c)] = k03.board[c]
    /\ \A c \in DOMAIN k04.board \ Interior(args) : k04.board[c] = BLOCKED

SameTest ==
    \A c \in DOMAIN k03.board : \A j \in 1 .. Len(KNIGHT_MOVES) :
        LET n == <<c[1] + KNIGHT_MOVES[j][1], c[2] + KNIGHT_MOVES[j][2]>>
        IN  valid04(k04.board, Shift(n)) = is_valid(args, k03.board, n)

C32_BorderEquivalent ==
    SameStep =>
        /\ SameTest
        /\ SameCalls
        /\ k04.result = k03.result
        /\ SameBoards
        /\ k04.trials = k03.trials

\* both programs have returned True on the 3x4 board after 450 examinations,
\* backtracking included
C32_Witness ==
    /\ SameStep
    /\ k03.result = "True" /\ k04.result = "True"
    /\ args.width = 3 /\ args.height = 4
    /\ k03.trials = 450
    /\ k04.board[<<3, 2>>] = 11

-----------------------------------------------------------------------------
(* knight-05-npf.py and knight-06-own-stack.py: the recursive search over an
   ordered candidate list and the same search with an explicit stack of
   Situations.  Each run also keeps the sequence of its writes to interior
   cells: <<"mark", cell>> for a move number, <<"unmark", cell>> for EMPTY. *)

\* self._move_generator, selected once from narrow_path_first (--npf); the two
\* generators are those of knight-09 on the fixed tuple KNIGHT_MOVES
MoveGenerator05(a, b, c) ==
    IF a.search_mode = "warnsdorff"
    THEN _ordered_moves_warnsdorff(b, KNIGHT_MOVES, c)
    ELSE _ordered_moves_plain(b, KNIGHT_MOVES, c)

MoveGenerator06(a, b, c) ==
    IF a.search_mode = "warnsdorff"
    THEN _ordered_moves_warnsdorff(b, KNIGHT_MOVES, c)
    ELSE _ordered_moves_plain(b, KNIGHT_MOVES, c)

\* stats.record is called once per offset of the outer loop, Empty or not
Examined05(b, c) == Len(KNIGHT_MOVES)

\* mutant: only the offsets that lead to an Empty cell are recorded
Examined06_OnlyEmpty(b, c) == Len(_ordered_moves_plain(b, KNIGHT_MOVES, c))

Examined06(b, c) == Len(KNIGHT_MOVES)

Solver05(a) ==
    [board |-> NewBoard(a), frames |-> <<>>, trials |-> 0, result |-> "new", marks |-> <<>>]

Solver06(a) ==
    [board |-> NewBoard(a), stack |-> <<>>, trials |-> 0, result |-> "new", marks |-> <<>>]

Loop05(c, n, moves) == [x |-> c[1], y |-> c[2], move_num |-> n, moves |-> moves, i |-> 0]

\* knight-05 _backtrack(c, n) is called in state k: return True at full
\* length, otherwise the candidate list is computed and the loop begins
Enter05(a, k, c, n) ==
    IF n = total_squares(a)
    THEN [k EXCEPT !.frames = <<>>, !.result = "True"]
    ELSE [k EXCEPT !.frames = Append(@, Loop05(c, n, MoveGenerator05(a, k.board, c))),
                   !.trials = @ + Examined05(k.board, c)]

\* knight-05 solve()
K05Solve ==
    /\ k05.result = "new"
    /\ LET c == <<2, 2>>
           k1 == [k05 EXCEPT !.board[c] = 0,
                             !.marks = Append(@, <<"mark", c>>),
                             !.result = "running"]
       IN  k05' = Enter05(args, k1, c, 1)
    /\ UNCHANGED <<main09, mirror_call, k03, k04, k06>>

\* knight-05 _backtrack: the next candidate is marked and entered
K05Descend ==
    /\ Running(k05)
    /\ TopCall(k05).i < Len(TopCall(k05).moves)
    /\ LET t == TopCall(k05)
           n == t.moves[t.i + 1]
           k1 == [k05 EXCEPT !.board[n] = t.move_num,
                             !.marks = Append(@, <<"mark", n>>),
                             !.frames = NextOffset(k05)]
       IN  k05' = Enter05(args, k1, n, t.move_num + 1)
    /\ UNCHANGED <<main09, mirror_call, k03, k04, k06>>

\* knight-05 _backtrack: the loop is over, return False; the caller resets the cell
K05GiveUp ==
    /\ Running(k05)
    /\ TopCall(k05).i >= Len(TopCall(k05).moves)
    /\ LET t == TopCall(k05)
           rest == SubSeq(k05.frames, 1, Len(k05.frames) - 1)
       IN  k05' = IF rest # <<>>
                  THEN [k05 EXCEPT !.board[<<t.x, t.y>>] = EMPTY,
                                   !.marks = Append(@, <<"unmark", <<t.x, t.y>>>>),
                                   !.frames = rest]
                  ELSE [k05 EXCEPT !.frames = rest, !.result = "False"]
    /\ UNCHANGED <<main09, mirror_call, k03, k04, k06>>

TopSituation(k) == k.stack[Len(k.stack)]

\* knight-06 is run once knight-05 has returned
Turn06 == Finished(k05)

\* knight-06 solve(), up to the loop
K06Init ==
    /\ Turn06
    /\ k06.result = "new"
    /\ LET c == <<2, 2>>
           b1 == [k06.board EXCEPT ![c] = 0]
       IN  k06' = [k06 EXCEPT !.board = b1,
                              !.marks = Append(@, <<"mark", c>>),
                              !.stack = <<Situation(c, 0, MoveGenerator06(args, b1, c))>>,
                              !.trials = @ + Examined06(b1, c),
                              !.result = "running"]
    /\ UNCHANGED <<main09, mirror_call, k03, k04, k05>>

\* knight-06 solve(): solution found
K06Found ==
    /\ Running(k06)
    /\ k06.stack # <<>>
    /\ TopSituation(k06).move_num + 1 = total_squares(args)
    /\ k06' = [k06 EXCEPT !.result = "True"]
    /\ UNCHANGED <<main09, mirror_call, k03, k04, k05>>

\* mutant: the start frame is popped without resetting its cell
K06Backtrack_KeepsStart ==
    /\ Running(k06)
    /\ k06.stack # <<>>
    /\ TopSituation(k06).move_num + 1 # total_squares(args)
    /\ TopSituation(k06).next_index >= Len(TopSituation(k06).moves)
    /\ LET t == TopSituation(k06)
       IN  k06' = IF t.move_num > 0
                  THEN [k06 EXCEPT !.board[Pos(t)] = EMPTY,
                                   !.marks = Append(@, <<"unmark", Pos(t)>>),
                                   !.stack = SubSeq(@, 1, Len(@) - 1)]
                  ELSE [k06 EXCEPT !.stack = SubSeq(@, 1, Len(@) - 1)]
    /\ UNCHANGED <<main09, mirror_call, k03, k04, k05>>

\* knight-06 solve(): exhausted all continuations, backtrack
K06Backtrack ==
    /\ Running(k06)
    /\ k06.stack # <<>>
    /\ TopSituation(k06).move_num + 1 # total_squares(args)
    /\ TopSituation(k06).next_index >= Len(TopSituation(k06).moves)
    /\ LET t == TopSituation(k06)
       IN  k06' = [k06 EXCEPT !.board[Pos(t)] = EMPTY,
                              !.marks = Append(@, <<"unmark", Pos(t)>>),
                              !.stack = SubSeq(@, 1, Len(@) - 1)]
    /\ UNCHANGED <<main09, mirror_call, k03, k04, k05>>

\* knight-06 solve(): try next continuation
K06Move ==
    /\ Running(k06)
    /\ k06.stack # <<>>
    /\ TopSituation(k06).move_num + 1 # total_squares(args)
    /\ TopSituation(k06).next_index < Len(TopSituation(k06).moves)
    /\ LET t == TopSituation(k06)
           n == t.moves[t.next_index + 1]
           b1 == [k06.board EXCEPT ![n] = t.move_num + 1]
           advanced == [k06.stack EXCEPT ![Len(k06.stack)].next_index = @ + 1]
       IN  k06' = [k06 EXCEPT !.board = b1,
                              !.marks = Append(@, <<"mark", n>>),
                              !.stack = Append(advanced,
                                               Situation(n, t.move_num + 1,
                                                         MoveGenerator06(args, b1, n))),
                              !.trials = @ + Examined06(b1, n)]
    /\ UNCHANGED <<main09, mirror_call, k03, k04, k05>>

\* knight-06 solve(): the stack is empty, return False
K06Exhausted ==
    /\ Running(k06)
    /\ k06.stack = <<>>
    /\ k06' = [k06 EXCEPT !.result = "False"]
    /\ UNCHANGED <<main09, mirror_call, k03, k04, k05>>

\* the runs of the two programs: every board of at most MaxCells cells in
\* both modes, and the 5x5 and 6x6 boards with --npf
StackInit ==
    /\ \/ \E w \in 1 .. MaxCells, h \in 1 .. MaxCells, m \in {"dfs", "warnsdorff"} :
            /\ w * h <= MaxCells
            /\ args = Args(w, h, m, FALSE, 0, 0, FALSE, NoSymmetry, NoLimit)
       \/ \E n \in {5, 6} :
            args = Args(n, n, "warnsdorff", FALSE, 0, 0, FALSE, NoSymmetry, NoLimit)
    /\ run = 0
    /\ Fresh
    /\ mirror_call = NoCall
    /\ k03 = NotRun /\ k04 = NotRun
    /\ k05 = Solver05(args)
    /\ k06 = Solver06(args)

StackNext ==
    \/ K05Solve
    \/ K05Descend
    \/ K05GiveUp
    \/ K06Init
    \/ K06Found
    \/ K06Backtrack
    \/ K06Move
    \/ K06Exhausted

StackSpec == StackInit /\ [][StackNext]_vars

(* C33: the explicit-stack solver mirrors the recursive solver: for the same
   width, height and mode, knight-06's iterative solve() performs the same
   sequence of cell marks and unmarks as knight-05's recursive _backtrack(),
   returns the same boolean and leaves the same final board on success. *)
IsPrefix(r, t) == Len(r) <= Len(t) /\ SubSeq(t, 1, Len(r)) = r

\* knight-05 has returned and knight-06 is being run or has returned
Compared == Finished(k05) /\ k06.result # "idle"

\* the claim as stated
C33_StackMirrorsRecursion ==
    Compared =>
        /\ IsPrefix(k06.marks, k05.marks)
        /\ Finished(k06) =>
              /\ k06.marks = k05.marks
              /\ k06.result = k05.result
              /\ k06.result = "True" => k06.board = k05.board

\* what knight-06 writes: the writes of knight-05 and, if the search fails,
\* the reset of the start cell by the last backtrack
MarksOfRecursion ==
    IF k05.result = "False"
    THEN Append(k05.marks, <<"unmark", <<2, 2>>>>)
    ELSE k05.marks

\* amended: on exhaustion knight-06 resets the start cell in addition
C33_StackMirrorsRecursionButStart ==
    Compared =>
        /\ IsPrefix(k06.marks, MarksOfRecursion)
        /\ Finished(k06) =>
              /\ k06.marks = MarksOfRecursion
              /\ k06.result = k05.result
              /\ k06.result = "True" => k06.board = k05.board

\* both searches have failed after ten writes or more, knight-06 with the
\* start reset and knight-05 with the start still marked
C33_Witness ==
    /\ Compared
    /\ k05.result = "False" /\ k06.result = "False"
    /\ Len(k05.marks) >= 10
    /\ k05.board[<<2, 2>>] = 0
    /\ k06.board[<<2, 2>>] = EMPTY

(* C34: for the same width, height and mode, the iterative solver of
   knight-06 records the same total number of trials as the recursive solver
   of knight-05, both when a tour is found and when the search is exhausted. *)
\* the claim as stated
C34_SameTrials ==
    (Compared /\ Finished(k06)) => k06.trials = k05.trials

\* amended: the iterative solver orders the moves of the last cell too
C34_SameTrialsButLastCell ==
    (Compared /\ Finished(k06)) =>
        /\ k06.result = k05.result
        /\ k06.result = "False" => k06.trials = k05.trials
        /\ k06.result = "True" => k06.trials = k05.trials + Len(KNIGHT_MOVES)

\* both have found a tour in pure DFS after backtracking, eight examinations apart
C34_Witness ==
    /\ Compared
    /\ k05.result = "True" /\ k06.result = "True"
    /\ args.search_mode = "dfs"
    /\ k05.trials > 100
    /\ k06.trials = k05.trials + 8

(* C35: when the plain solve() ends by exhaustion (returns False), the board
   equals its freshly constructed state: every interior cell, including the
   start cell, is Empty and every border cell is Blocked. *)
PlainExhausted ==
    /\ PlainRun
    /\ stack = <<>>
    /\ \/ pc = "solve"
       \/ pc = "done" /\ found = FALSE

C35_ExhaustedPlainBoard ==
    PlainExhausted =>
        /\ board = NewBoard(args)
        /\ \A c \in Interior(args) : board[c] = EMPTY
        /\ \A c \in DOMAIN board \ Interior(args) : board[c] = BLOCKED

\* the same for knight-06, whose loop solve() took over
ExhaustedBoard06 == k06.result = "False" => k06.board = NewBoard(args)

\* a search of a hundred examinations or more has failed
C35_Witness ==
    /\ PlainExhausted
    /\ pc = "done"
    /\ total_squares(args) >= 9
    /\ trials >= 100
    /\ board[StartCell(args)] = EMPTY

(* C36: in _solve_symmetric() on a validated configuration the "skip if not
   empty" branch is never taken: every candidate of a frame is still Empty at
   the moment the cursor reaches it, because everything marked or
   mirror-blocked in a sibling's subtree has been reverted by then. *)
\* the loop is about to take the next candidate of the top frame (line 384)
TakesCandidate ==
    /\ pc = "symmetric" /\ stack # <<>>
    /\ ~LimitReached(args, trials)
    /\ ~SymAccepts(args, knight_moves, Top)
    /\ Top.next_index < Len(Top.moves)

C36_SkipNeverTaken ==
    [][TakesCandidate =>
          /\ \A j \in Top.next_index + 1 .. Len(Top.moves) : board[Top.moves[j]] = EMPTY
          /\ Len(stack') = Len(stack) + 1
          /\ Pos(Pushed) = Top.moves[Top.next_index + 1]]_vars

\* the cursor of the start frame has reached its second candidate after the
\* subtree of the first, several frames deep, was searched and reverted
C36_Witness ==
    /\ pc = "symmetric"
    /\ Len(stack) = 1
    /\ Top.next_index = 1
    /\ Len(Top.moves) >= 2
    /\ trials >= 50
    /\ board[Top.moves[1]] = EMPTY
    /\ board[Top.moves[2]] = EMPTY

-----------------------------------------------------------------------------
(* The mirror functions called on their own: any board size, any physical
   cell c and any physical cell d near it. *)

MirrorCall(f, c, d, mc, md, mmc) ==
    [f |-> f, c |-> c, d |-> d, mc |-> mc, md |-> md, mmc |-> mmc]

Near(c) ==
    {d \in PhysCells(args) :
        /\ c[1] - d[1] <= MaxApart /\ d[1] - c[1] <= MaxApart
        /\ c[2] - d[2] <= MaxApart /\ d[2] - c[2] <= MaxApart}

CallMirrorH ==
    /\ mirror_call = NoCall
    /\ \E c \in PhysCells(args) : \E d \in Near(c) :
         mirror_call' = MirrorCall("h", c, d, _mirror_h(args, c), _mirror_h(args, d),
                                   _mirror_h(args, _mirror_h(args, c)))
    /\ UNCHANGED <<main09, earlier>>

CallMirrorV ==
    /\ mirror_call = NoCall
    /\ \E c \in PhysCells(args) : \E d \in Near(c) :
         mirror_call' = MirrorCall("v", c, d, _mirror_v(args, c), _mirror_v(args, d),
                                   _mirror_v(args, _mirror_v(args, c)))
    /\ UNCHANGED <<main09, earlier>>

CallMirrorP ==
    /\ mirror_call = NoCall
    /\ \E c \in PhysCells(args) : \E d \in Near(c) :
         mirror_call' = MirrorCall("p", c, d, _mirror_p(args, c), _mirror_p(args, d),
                                   _mirror_p(args, _mirror_p(args, c)))
    /\ UNCHANGED <<main09, earlier>>

MirrorInit ==
    /\ \E w \in 1 .. MaxSide, h \in 1 .. MaxSide :
         args = Args(w, h, "dfs", FALSE, 0, 0, FALSE, NoSymmetry, NoLimit)
    /\ run = 0
    /\ Fresh
    /\ mirror_call = NoCall
    /\ EarlierNotRun

MirrorNext == CallMirrorH \/ CallMirrorV \/ CallMirrorP

MirrorSpec == MirrorInit /\ [][MirrorNext]_vars

(* C37: each mirror function (h, v, p) is an involution on physical
   coordinates, maps interior cells to interior cells, and preserves knight
   adjacency (a and b are one knight move apart iff mirror(a) and mirror(b)
   are), for every board size. *)
C37_MirrorsAreSymmetries ==
    mirror_call # NoCall =>
        /\ mirror_call.mmc = mirror_call.c
        /\ mirror_call.mc \in PhysCells(args)
        /\ mirror_call.c \in Interior(args) <=> mirror_call.mc \in Interior(args)
        /\ KnightStep(mirror_call.c, mirror_call.d) <=> KnightStep(mirror_call.mc, mirror_call.md)
        /\ _can_connect(BASE_KNIGHT_MOVES, mirror_call.c, mirror_call.d)
              <=> _can_connect(BASE_KNIGHT_MOVES, mirror_call.mc, mirror_call.md)

\* the vertical mirror on a 3x5 board, of two interior cells a knight move
\* apart, neither on the axis
C37_Witness ==
    /\ mirror_call # NoCall
    /\ mirror_call.f = "v"
    /\ args.width = 3 /\ args.height = 5
    /\ mirror_call.c = <<2, 2>> /\ mirror_call.d = <<3, 4>>
    /\ mirror_call.mc = <<2, 6>> /\ mirror_call.md = <<3, 4>>

(* C38: a trial limit never discards a solution that is already on the
   stack: in _solve_symmetric(), whenever the top frame has move number half-1
   and its cell is one knight move from mirror(start), the solver renumbers
   the board and returns True, whatever the limit and the current trial
   count. *)
\* path A is complete on the stack and links to the mirror of the start
SolutionOnStack ==
    /\ pc = "symmetric" /\ stack # <<>>
    /\ Top.move_num = half_squares(args) - 1
    /\ _can_connect(knight_moves, Pos(Top), start_b(args))

ReturnsTrueRenumbered ==
    /\ pc' = "done" /\ found' = TRUE
    /\ board' = _renumber_symmetric_path(args, board)
    /\ stack' = stack /\ trials' = trials

\* the claim as stated
C38_LimitKeepsSolution ==
    [][SolutionOnStack => ReturnsTrueRenumbered]_vars

\* amended: unless the limit has been reached, where the limit test of line
\* 368 returns False first and leaves the board as it is
C38_LimitKeepsSolutionBelowLimit ==
    [][SolutionOnStack =>
          IF LimitReached(args, trials)
          THEN /\ pc' = "done" /\ found' = FALSE
               /\ board' = board /\ stack' = stack /\ trials' = trials
          ELSE ReturnsTrueRenumbered]_vars

\* a limited search has returned True, the limit one examination away
C38_Witness ==
    /\ pc = "done" /\ found /\ SymmetricRun
    /\ args.limit # NoLimit
    /\ trials = args.limit - 1
    /\ Len(stack) = half_squares(args)
    /\ HoldsEachOnce(total_squares(args))

====
